---- MODULE Spec2Model ----
(***************************************************************************)
(* Model of the bounded, domain-scoped web crawler of RAG-Streamlit:       *)
(* src/src/utils/url_validator.py (URLValidator) and                       *)
(* src/src/scraper/web_scraper.py (WebScraper).                            *)
(*                                                                         *)
(* Strings are sequences of tokens.  A token stands for a run of           *)
(* characters of the Python string: the scheme prefixes "https://" and     *)
(* "http://", a host name, one "/", "?", "#", ":" or " " character, or a   *)
(* word without any of these delimiters.  The string operations of the     *)
(* code work on the characters of the tokens (Chars).                      *)
(***************************************************************************)
EXTENDS Integers, Sequences, FiniteSets, TLC

(***************************************************************************)
(* Bounds of the model (not program constants).                            *)
(***************************************************************************)
MaxDepthBound == 2
MaxPagesBound == 4
MaxUrlLen == 4
\* The scrape_and_store_website calls of a session of the front end.
MaxCalls == 2

\* The readings of the clock, 0..MaxClock.
MaxClock == 1

MaxNodes == 3

(***************************************************************************)
(* Python's None, as returned by normalize_url, get_domain and             *)
(* make_absolute_url.  It is no string any input or URL can be equal to.   *)
(***************************************************************************)
None == <<"<None>">>

SchemeTokens == {"https://", "http://"}
Whitespace == {" ", "\t", "\n"}

RECURSIVE Concat(_)
Concat(seqs) ==
    CHOOSE r \in {IF s = <<>> THEN <<>> ELSE Head(s) \o Concat(Tail(s))
                  : s \in {seqs}} : TRUE

(***************************************************************************)
(* The characters of a string.  The tokens that hold a ":" or a "/" are    *)
(* spelled out, so that every delimiter the code looks for is a piece of   *)
(* its own; Tokens puts them together again.  The operators below search   *)
(* and cut the characters and return strings of tokens.                    *)
(***************************************************************************)
CharsOf(token) ==
    IF token = "https://" THEN <<"https", ":", "/", "/">>
    ELSE IF token = "http://" THEN <<"http", ":", "/", "/">>
    ELSE IF token = "javascript:" THEN <<"javascript", ":">>
    ELSE IF token = "mailto:" THEN <<"mailto", ":">>
    ELSE IF token = "tel:" THEN <<"tel", ":">>
    ELSE <<token>>

Chars(str) ==
    CHOOSE r \in {Concat([i \in 1..Len(s) |-> CharsOf(s[i])])
                  : s \in {str}} : TRUE

RECURSIVE Tokens(_)
Tokens(chars) ==
    CHOOSE r \in
        {IF c = <<>> THEN <<>>
         ELSE IF Len(c) >= 4 /\ c[1] \in {"https", "http"} /\ c[2] = ":"
                 /\ c[3] = "/" /\ c[4] = "/"
         THEN <<IF c[1] = "https" THEN "https://" ELSE "http://">>
                  \o Tokens(SubSeq(c, 5, Len(c)))
         ELSE IF Len(c) >= 2 /\ c[1] \in {"javascript", "mailto", "tel"}
                 /\ c[2] = ":"
         THEN <<IF c[1] = "javascript" THEN "javascript:"
                ELSE IF c[1] = "mailto" THEN "mailto:" ELSE "tel:">>
                  \o Tokens(SubSeq(c, 3, Len(c)))
         ELSE <<Head(c)>> \o Tokens(Tail(c)) : c \in {chars}} : TRUE

\* str.startswith(prefix)
StartsWith(str, prefix) ==
    \E s \in {Chars(str)} : \E p \in {Chars(prefix)} :
        Len(p) <= Len(s) /\ SubSeq(s, 1, Len(p)) = p

(***************************************************************************)
(* Every operator binds its arguments once, as the elements of singleton   *)
(* sets, so that an argument is evaluated a single time however often the  *)
(* body uses it: Python evaluates arguments before the call.               *)
(***************************************************************************)

(***************************************************************************)
(* str.strip(): leading and trailing whitespace removed.                   *)
(***************************************************************************)
RECURSIVE LStrip(_)
LStrip(str) ==
    CHOOSE r \in {IF s # <<>> /\ Head(s) \in Whitespace
                  THEN LStrip(Tail(s)) ELSE s : s \in {str}} : TRUE

RECURSIVE RStrip(_)
RStrip(str) ==
    CHOOSE r \in {IF s # <<>> /\ s[Len(s)] \in Whitespace
                  THEN RStrip(SubSeq(s, 1, Len(s) - 1)) ELSE s
                  : s \in {str}} : TRUE

Strip(s) == RStrip(LStrip(s))

(***************************************************************************)
(* str.count('/')                                                          *)
(***************************************************************************)
SlashCount(str) ==
    CHOOSE r \in {Cardinality({i \in 1..Len(s) : s[i] = "/"})
                  : s \in {Chars(str)}} : TRUE

(***************************************************************************)
(* The position of the first character of str that is in D, or one past    *)
(* the last character.                                                     *)
(***************************************************************************)
FirstOf(str, D) ==
    CHOOSE r \in {IF \E i \in 1..Len(s) : s[i] \in D
                  THEN CHOOSE i \in 1..Len(s) :
                           s[i] \in D /\ \A j \in 1..(i - 1) : s[j] \notin D
                  ELSE Len(s) + 1 : s \in {Chars(str)}} : TRUE

(***************************************************************************)
(* urllib.parse.urlparse: scheme, netloc, path, query, fragment.  Leading  *)
(* whitespace is dropped and tabs and line breaks are removed.  The text   *)
(* before the first ":" is the scheme when it is made of scheme characters *)
(* and starts with a letter.  What follows a "//" up to the next "/", "?"  *)
(* or "#" is the netloc; the path ends at the first "?" or "#", the query  *)
(* at the first "#".                                                       *)
(***************************************************************************)
\* The pieces that are not made of letters, digits, "+", "-" and ".".
NonSchemeChars == {":", "/", "?", "#", " ", "\t", "\n", "_", "<None>"}

\* The pieces that do not start with a letter.
Letterless == {".", ".."}

ParseAfterPath(scheme, netloc, path, afterPath) ==
    CHOOSE r \in
        {CHOOSE parsed \in
            {[scheme   |-> scheme,
              netloc   |-> Tokens(netloc),
              path     |-> Tokens(path),
              query    |-> Tokens(IF q > 0 THEN SubSeq(rest, 2, q)
                                 ELSE <<>>),
              fragment |-> Tokens(SubSeq(rest, q + 2, Len(rest)))]
             : q \in {IF rest # <<>> /\ Head(rest) = "?"
                      THEN FirstOf(rest, {"#"}) - 1 ELSE 0}} : TRUE
         : rest \in {afterPath}} : TRUE

ParseAfterNetloc(scheme, netloc, afterNet) ==
    CHOOSE r \in
        {CHOOSE parsed \in
            {ParseAfterPath(scheme, netloc, SubSeq(rest, 1, p),
                            SubSeq(rest, p + 1, Len(rest)))
             : p \in {FirstOf(rest, {"?", "#"}) - 1}} : TRUE
         : rest \in {afterNet}} : TRUE

\* scheme is the string before the ":" (empty without a scheme),
\* afterScheme the characters that follow.
ParseAfterScheme(scheme, afterScheme) ==
    CHOOSE r \in
        {CHOOSE parsed \in
            {IF Len(rest) >= 2 /\ rest[1] = "/" /\ rest[2] = "/"
             THEN ParseAfterNetloc(s, SubSeq(rest, 3, n + 2),
                                   SubSeq(rest, n + 3, Len(rest)))
             ELSE ParseAfterNetloc(s, <<>>, rest)
             : n \in {FirstOf(SubSeq(rest, 3, Len(rest)),
                              {"/", "?", "#"}) - 1}} : TRUE
         : s \in {scheme}, rest \in {Chars(afterScheme)}} : TRUE

\* url[:i] is a scheme: i > 0, a letter first, scheme characters only.
SplitScheme(chars, default) ==
    CHOOSE r \in
        {CHOOSE parsed \in
            {IF /\ i > 1 /\ i <= Len(s)
                /\ s[1] \notin Letterless
                /\ \A j \in 1..(i - 1) : s[j] \notin NonSchemeChars
             THEN ParseAfterScheme(SubSeq(s, 1, i - 1),
                                   SubSeq(s, i + 1, Len(s)))
             ELSE ParseAfterScheme(default, s)
             : i \in {FirstOf(s, {":"})}} : TRUE
         : s \in {chars}} : TRUE

\* urlparse(url, scheme): scheme is the default of a url without one.
UrlParseDefault(url, default) ==
    SplitScheme(SelectSeq(LStrip(Chars(url)),
                          LAMBDA c : c \notin {"\t", "\n"}), default)

UrlParse(url) == UrlParseDefault(url, <<>>)

(***************************************************************************)
(* urllib.parse.urlunparse of the five components.                         *)
(***************************************************************************)
UsesRelative ==
    {<<>>} \cup {<<s>> : s \in
        {"ftp", "http", "gopher", "nntp", "imap", "wais", "file", "https",
         "shttp", "mms", "prospero", "rtsp", "rtsps", "rtspu", "sftp",
         "svn", "svn+ssh", "ws", "wss"}}

UsesNetloc ==
    {<<>>} \cup {<<s>> : s \in
        {"ftp", "http", "gopher", "nntp", "telnet", "imap", "wais", "file",
         "mms", "https", "shttp", "snews", "prospero", "rtsp", "rtsps",
         "rtspu", "rsync", "svn", "svn+ssh", "sftp", "nfs", "git",
         "git+ssh", "ws", "wss"}}

UrlUnparse(scheme, netloc, path, query, fragment) ==
    CHOOSE r \in
        {Tokens(
            (IF s # <<>> THEN s \o <<":">> ELSE <<>>)
            \o (IF \/ n # <<>>
                   \/ /\ s # <<>> /\ s \in UsesNetloc
                      /\ ~(Len(p) >= 2 /\ p[1] = "/" /\ p[2] = "/")
                THEN <<"/", "/">> \o n
                         \o (IF p # <<>> /\ p[1] # "/" THEN <<"/">> ELSE <<>>)
                ELSE <<>>)
            \o p
            \o (IF q # <<>> THEN <<"?">> \o q ELSE <<>>)
            \o (IF f # <<>> THEN <<"#">> \o f ELSE <<>>))
         : s \in {scheme}, n \in {Chars(netloc)}, p \in {Chars(path)},
           q \in {Chars(query)}, f \in {Chars(fragment)}} : TRUE

(***************************************************************************)
(* validators.url (third-party): a scheme prefix, then a well-formed host  *)
(* name, and no whitespace anywhere.                                       *)
(***************************************************************************)
ValidHosts == {"a.com", "sub.a.com", "b.com"}

ValidatorsUrl(url) ==
    \E u \in {url} : \E parsed \in {UrlParse(u)} :
        /\ StartsWith(u, <<"http://">>) \/ StartsWith(u, <<"https://">>)
        /\ parsed.scheme \in {<<"http">>, <<"https">>}
        /\ Len(parsed.netloc) = 1
        /\ parsed.netloc[1] \in ValidHosts
        /\ \A i \in 1..Len(u) : u[i] \notin Whitespace

IsValidUrl(url) ==
    \E u \in {url} :
        /\ u # <<>>
        /\ ValidatorsUrl(u)
        /\ \E parsed \in {UrlParse(u)} :
               /\ parsed.scheme \in {<<"http">>, <<"https">>}
               /\ parsed.netloc # <<>>

\* f"{parsed.scheme}://{parsed.netloc}{parsed.path}" and the query, if any
Reconstruct(parsed) ==
    CHOOSE r \in
        {Tokens(Chars(p.scheme \o <<":", "/", "/">> \o p.netloc \o p.path
             \o (IF p.query # <<>> THEN <<"?">> \o p.query ELSE <<>>)))
         : p \in {parsed}} : TRUE

\* Mutant of NormalizeUrl: the reconstructed URL is returned unvalidated.
NormalizeUrlUnvalidated(raw) ==
    IF raw = <<>> THEN None
    ELSE CHOOSE r \in
        {Reconstruct(UrlParse(
             IF \E prefix \in SchemeTokens : StartsWith(url, <<prefix>>)
             THEN url ELSE <<"https://">> \o url))
         : url \in {Strip(raw)}} : TRUE

NormalizeUrl(raw) ==
    IF raw = <<>> THEN None
    ELSE CHOOSE r \in
        {IF IsValidUrl(normalized) THEN normalized ELSE None
         : normalized \in
             {Reconstruct(UrlParse(
                 IF \E prefix \in SchemeTokens : StartsWith(url, <<prefix>>)
                 THEN url ELSE <<"https://">> \o url))
              : url \in {Strip(raw)}}} : TRUE

GetDomain(url) ==
    CHOOSE r \in {IF parsed.netloc # <<>> THEN parsed.netloc ELSE None
                  : parsed \in {UrlParse(url)}} : TRUE

\* Mutant of IsSameDomain: domain2.endswith(domain1) instead of equality.
HostEndsWith(host, suffix) ==
    host = suffix \/ (host = <<"sub.a.com">> /\ suffix = <<"a.com">>)

IsSameDomainBySuffix(url1, url2) ==
    \E domain1 \in {GetDomain(url1)} : \E domain2 \in {GetDomain(url2)} :
        IF domain1 = None \/ domain2 = None THEN FALSE
        ELSE HostEndsWith(domain2, domain1)

IsSameDomain(url1, url2) ==
    \E domain1 \in {GetDomain(url1)} : \E domain2 \in {GetDomain(url2)} :
        IF domain1 = None \/ domain2 = None THEN FALSE
        ELSE domain1 = domain2

(***************************************************************************)
(* urllib.parse.urljoin.                                                   *)
(***************************************************************************)
\* str.split('/')
RECURSIVE SplitSlash(_)
SplitSlash(str) ==
    CHOOSE r \in
        {CHOOSE segments \in
            {IF n > Len(c) THEN <<c>>
             ELSE <<SubSeq(c, 1, n - 1)>>
                      \o SplitSlash(SubSeq(c, n + 1, Len(c)))
             : n \in {FirstOf(c, {"/"})}} : TRUE
         : c \in {Chars(str)}} : TRUE

\* '/'.join(segments)
RECURSIVE JoinSlash(_)
JoinSlash(segments) ==
    CHOOSE r \in
        {IF segs = <<>> THEN <<>>
         ELSE IF Len(segs) = 1 THEN Head(segs)
         ELSE Head(segs) \o <<"/">> \o JoinSlash(Tail(segs))
         : segs \in {segments}} : TRUE

\* The last part of the base path is dropped unless it is a directory.
DropLastSegment(base_parts) ==
    CHOOSE r \in
        {IF parts # <<>> /\ parts[Len(parts)] # <<>>
         THEN SubSeq(parts, 1, Len(parts) - 1) ELSE parts
         : parts \in {base_parts}} : TRUE

\* segments[1:-1] = filter(None, segments[1:-1])
FilterInner(segments) ==
    CHOOSE r \in
        {IF Len(segs) <= 2 THEN segs
         ELSE <<Head(segs)>>
                  \o SelectSeq(SubSeq(segs, 2, Len(segs) - 1),
                               LAMBDA seg : seg # <<>>)
                  \o <<segs[Len(segs)]>>
         : segs \in {segments}} : TRUE

ParentDir == {<<"..">>, <<".", ".">>}

\* The loop over the segments: ".." pops, "." is skipped.
RECURSIVE ResolveDots(_, _)
ResolveDots(segments, resolved_path) ==
    CHOOSE r \in
        {IF segs = <<>> THEN resolved
         ELSE ResolveDots(Tail(segs),
                  IF Head(segs) \in ParentDir
                  THEN SubSeq(resolved, 1, Len(resolved) - 1)
                  ELSE IF Head(segs) = <<".">> THEN resolved
                  ELSE Append(resolved, Head(segs)))
         : segs \in {segments}, resolved \in {resolved_path}} : TRUE

ResolvePath(bpath, path) ==
    CHOOSE r \in
        {IF joined = <<>> THEN <<"/">> ELSE joined
         : joined \in
             {JoinSlash(ResolveDots(segments, <<>>)
                            \o (IF segments[Len(segments)]
                                      \in ParentDir \cup {<<".">>}
                                THEN << <<>> >> ELSE <<>>))
              : segments \in
                  {CHOOSE segs \in
                      {IF StartsWith(p, <<"/">>) THEN SplitSlash(p)
                       ELSE FilterInner(DropLastSegment(SplitSlash(bpath))
                                            \o SplitSlash(p))
                       : p \in {path}} : TRUE}}} : TRUE

UrlJoinParsed(base, url) ==
    CHOOSE r \in
        {CHOOSE joined \in
            {IF u.scheme # b.scheme \/ u.scheme \notin UsesRelative THEN url
             ELSE IF u.scheme \in UsesNetloc /\ u.netloc # <<>>
             THEN UrlUnparse(u.scheme, u.netloc, u.path, u.query, u.fragment)
             ELSE IF u.path = <<>>
             THEN UrlUnparse(u.scheme,
                             IF u.scheme \in UsesNetloc THEN b.netloc
                             ELSE u.netloc,
                             b.path,
                             IF u.query # <<>> THEN u.query ELSE b.query,
                             u.fragment)
             ELSE UrlUnparse(u.scheme,
                             IF u.scheme \in UsesNetloc THEN b.netloc
                             ELSE u.netloc,
                             ResolvePath(b.path, u.path),
                             u.query, u.fragment)
             : u \in {UrlParseDefault(url, b.scheme)}} : TRUE
         : b \in {UrlParse(base)}} : TRUE

UrlJoin(base, url) ==
    CHOOSE r \in
        {IF b = <<>> THEN u
         ELSE IF u = <<>> THEN b
         ELSE UrlJoinParsed(b, u) : b \in {base}, u \in {url}} : TRUE

\* Mutant of MakeAbsoluteUrl: the joined URL is returned unvalidated.
MakeAbsoluteUrlUnvalidated(base_url, relative_url) ==
    UrlJoin(base_url, relative_url)

MakeAbsoluteUrl(base_url, relative_url) ==
    CHOOSE r \in {IF IsValidUrl(absolute) THEN absolute ELSE None
                  : absolute \in {UrlJoin(base_url, relative_url)}} : TRUE

CleanUrl(raw) ==
    CHOOSE r \in
        {Tokens(IF url # <<>> /\ url[Len(url)] = "/" /\ SlashCount(url) > 3
                THEN SubSeq(url, 1, Len(url) - 1)
                ELSE url) : url \in {Strip(Chars(raw))}} : TRUE

(***************************************************************************)
(* WebScraper._extract_links over the href attributes of the page's        *)
(* anchors, in document order.                                             *)
(***************************************************************************)
SkippedPrefixes == {"#", "javascript:", "mailto:", "tel:"}

\* One iteration of the loop over the anchors (lines 314-324).
AddLink(links, base_url, href) ==
    IF href # <<>> /\ Head(href) \in SkippedPrefixes THEN links
    ELSE CHOOSE r \in
        {IF absolute_url # None
            /\ \A i \in 1..Len(ls) : ls[i] # absolute_url
         THEN Append(ls, absolute_url)
         ELSE ls
         : ls \in {links},
           absolute_url \in {MakeAbsoluteUrl(base_url, href)}} : TRUE

RECURSIVE ExtractLinksFrom(_, _, _)
ExtractLinksFrom(hrefs, base_url, links) ==
    CHOOSE r \in
        {IF hs = <<>> THEN ls
         ELSE ExtractLinksFrom(Tail(hs), base_url,
                               AddLink(ls, base_url, Head(hs)))
         : hs \in {hrefs}, ls \in {links}} : TRUE

ExtractLinks(hrefs, base_url) == ExtractLinksFrom(hrefs, base_url, <<>>)

(***************************************************************************)
(* The parsed document (soup).  title is the first title element: present  *)
(* or not, with its string (None for an element without text).  metas are  *)
(* the meta elements with their name, property and content attributes      *)
(* (None for an absent attribute).  nodes are the other elements in        *)
(* document order, each with its tag, the tag of the element it is nested  *)
(* in ("body" at the top level), its own text and its href attribute (None *)
(* if absent).  Text is a sequence of words and whitespace characters.     *)
(***************************************************************************)
RemovedTags == {"script", "style", "nav", "footer", "header", "aside"}

\* The soup after element.decompose() of lines 256-257: a removed element
\* goes with everything nested in it.
Decompose(soup) ==
    [soup EXCEPT !.nodes =
        SelectSeq(soup.nodes,
                  LAMBDA n : n.tag \notin RemovedTags
                             /\ n.inside \notin RemovedTags)]

\* soup.get_text(): the text of the title and of every element, in order.
GetText(soup) ==
    (IF soup.title.present /\ soup.title.string # None
     THEN soup.title.string ELSE <<>>)
        \o Concat([i \in 1..Len(soup.nodes) |-> soup.nodes[i].text])

\* _extract_title, lines 236-246.
ExtractTitle(soup) ==
    IF soup.title.present
    THEN IF soup.title.string # None /\ soup.title.string # <<>>
         THEN Strip(soup.title.string) ELSE <<>>
    ELSE IF \E i \in 1..Len(soup.nodes) : soup.nodes[i].tag = "h1"
    THEN Strip(soup.nodes[CHOOSE i \in 1..Len(soup.nodes) :
                             /\ soup.nodes[i].tag = "h1"
                             /\ \A j \in 1..(i - 1) :
                                    soup.nodes[j].tag # "h1"].text)
    ELSE <<"Untitled">>

\* str.splitlines(): the pieces between line breaks.
RECURSIVE SplitLines(_)
SplitLines(text) ==
    CHOOSE r \in
        {IF n > Len(t) THEN (IF t = <<>> THEN <<>> ELSE <<t>>)
         ELSE <<SubSeq(t, 1, n - 1)>> \o SplitLines(SubSeq(t, n + 1, Len(t)))
         : t \in {Chars(text)}, n \in {FirstOf(text, {"\n"})}} : TRUE

\* str.split("  "): the pieces between non-overlapping pairs of spaces.
RECURSIVE SplitDoubleSpace(_)
SplitDoubleSpace(line) ==
    CHOOSE r \in
        {IF \E i \in 1..(Len(l) - 1) : l[i] = " " /\ l[i + 1] = " "
         THEN CHOOSE parts \in
             {<<SubSeq(l, 1, i - 1)>>
                  \o SplitDoubleSpace(SubSeq(l, i + 2, Len(l)))
              : i \in {CHOOSE k \in 1..(Len(l) - 1) :
                          /\ l[k] = " " /\ l[k + 1] = " "
                          /\ \A j \in 1..(k - 1) :
                                 ~(l[j] = " " /\ l[j + 1] = " ")}} : TRUE
         ELSE <<l>> : l \in {line}} : TRUE

\* ' '.join(chunks)
RECURSIVE JoinSpace(_)
JoinSpace(chunks) ==
    CHOOSE r \in
        {IF cs = <<>> THEN <<>>
         ELSE IF Len(cs) = 1 THEN Head(cs)
         ELSE Head(cs) \o <<" ">> \o JoinSpace(Tail(cs))
         : cs \in {chunks}} : TRUE

\* The stripped, non-empty phrases of the stripped lines (lines 263-265).
Chunks(text) ==
    SelectSeq(
        Concat([i \in 1..Len(SplitLines(text)) |->
                   [j \in 1..Len(SplitDoubleSpace(Strip(SplitLines(text)[i])))
                       |-> Strip(SplitDoubleSpace(
                                     Strip(SplitLines(text)[i]))[j])]]),
        LAMBDA chunk : chunk # <<>>)

\* _extract_content, lines 248-267, on the decomposed soup.
ExtractContent(decomposed) ==
    Tokens(JoinSpace(Chunks(GetText(decomposed))))

\* _extract_metadata, lines 273-284: the meta elements, last one wins.
RECURSIVE MetaTags(_, _)
MetaTags(metas, metadata) ==
    IF metas = <<>> THEN metadata
    ELSE CHOOSE r \in
        {MetaTags(Tail(metas),
                  IF name # <<>> /\ content # <<>>
                  THEN (name :> content) @@ metadata ELSE metadata)
         : name \in {IF Head(metas).name # None THEN Head(metas).name
                     ELSE IF Head(metas).property # None
                     THEN Head(metas).property ELSE <<>>},
           content \in {IF Head(metas).content # None
                        THEN Head(metas).content ELSE <<>>}} : TRUE

\* Lines 286-293: the headings, level by level, in document order.
Headings(decomposed) ==
    Concat([level \in 1..6 |->
        [i \in 1..Len(SelectSeq(decomposed.nodes,
                                LAMBDA n : n.tag = <<"h1", "h2", "h3", "h4",
                                                     "h5", "h6">>[level]))
           |-> [level |-> level,
                text  |-> Strip(SelectSeq(decomposed.nodes,
                              LAMBDA n : n.tag = <<"h1", "h2", "h3", "h4",
                                                   "h5", "h6">>[level])[i]
                                .text)]]])

\* _extract_metadata, lines 269-298, on the decomposed soup.
ExtractMetadata(decomposed) ==
    IF Headings(decomposed) # <<>>
    THEN (<<"headings">> :> Headings(decomposed))
             @@ MetaTags(decomposed.metas, <<>>)
    ELSE MetaTags(decomposed.metas, <<>>)

\* soup.find_all('a', href=True): the href attributes of the anchors.
AnchorHrefs(decomposed) ==
    [i \in 1..Len(SelectSeq(decomposed.nodes,
                            LAMBDA n : n.tag = "a" /\ n.href # None))
       |-> SelectSeq(decomposed.nodes,
                     LAMBDA n : n.tag = "a" /\ n.href # None)[i].href]

\* _scrape_page, lines 200-227: the title of the soup as parsed, then the
\* content, which decomposes the soup, then the metadata and the links of
\* what is left; now is what time.time() returns at line 223.
ScrapePage(url, depth, soup, now) ==
    CHOOSE r \in
        {[url       |-> url,
          title     |-> ExtractTitle(soup),
          content   |-> ExtractContent(decomposed),
          metadata  |-> ExtractMetadata(decomposed),
          links     |-> ExtractLinks(AnchorHrefs(decomposed), url),
          depth     |-> depth,
          timestamp |-> now]
         : decomposed \in {Decompose(soup)}} : TRUE

(***************************************************************************)
(* The web as seen through session.get: the resource a URL names (the      *)
(* fragment is not sent, an empty path is requested as "/") and, per       *)
(* site, the anchors of the page served for it.                            *)
(***************************************************************************)
Resource(url) ==
    CHOOSE r \in
        {parsed.netloc
             \o (IF parsed.path = <<>> THEN <<"/">> ELSE parsed.path)
             \o (IF parsed.query # <<>>
                 THEN <<"?">> \o parsed.query ELSE <<>>)
         : parsed \in {UrlParse(url)}} : TRUE

Sites == {"Cycle", "Mixed", "Deep"}

\* Cycle: a.com pages linking to each other, to the root and off-site.
CycleHrefs(res) ==
    IF res = <<"a.com", "/">>
    THEN << <<"/", "p">>, <<"/", "q">> >>
    ELSE IF res \in {<<"a.com", "/", "p">>, <<"a.com", "/", "p", "/">>}
    THEN << <<"/", "q">>, <<"https://", "a.com", "/">>, <<"/", "p", "/">> >>
    ELSE IF res = <<"a.com", "/", "q">>
    THEN << <<"/", "p", "/">>, <<"https://", "b.com", "/">>, <<"/", "r">> >>
    ELSE <<>>

\* Mixed: skipped anchors, fragments, a subdomain and relative references.
MixedHrefs(res) ==
    IF res = <<"a.com", "/">>
    THEN << <<"#", "top">>, <<"mailto:", "x">>, <<"/", "p", "#", "f">>,
            <<"https://", "sub.a.com", "/", "p">>, <<"/", "p">>, <<"q">> >>
    ELSE IF res \in {<<"a.com", "/", "p">>, <<"a.com", "/", "p", "/">>}
    THEN << <<"q">>, <<"/">>, <<"tel:", "x">> >>
    ELSE IF res = <<"sub.a.com", "/", "p">>
    THEN << <<"https://", "a.com", "/", "q">>, <<"/", "p", "/">>, <<"r">> >>
    ELSE <<>>

\* Deep: every a.com page links to a new page one level below itself and
\* to /q: an unbounded supply of distinct same-domain pages.
DeepHrefs(res) ==
    IF res # <<>> /\ Head(res) = "a.com"
    THEN << <<"https://">>
               \o (IF res[Len(res)] = "/"
                   THEN SubSeq(res, 1, Len(res) - 1) ELSE res)
               \o <<"/", "p">>,
            <<"/", "q">> >>
    ELSE <<>>

\* Alike: pages whose paths differ in one character.
AlikeHrefs(res) ==
    IF res = <<"a.com", "/">>
    THEN << <<"/", "p", "/", "q">>, <<"/", "p", "_", "q">> >>
    ELSE <<>>

SiteHrefs(s, res) ==
    IF s = "Cycle" THEN CycleHrefs(res)
    ELSE IF s = "Mixed" THEN MixedHrefs(res)
    ELSE IF s = "Deep" THEN DeepHrefs(res)
    ELSE AlikeHrefs(res)

\* The document served for a resource: its anchors, each in a paragraph of
\* the body, under a title naming the resource; the root page of Mixed also
\* has a level-1 heading and a navigation bar with a link.
SiteSoup(s, res) ==
    [title |-> [present |-> TRUE, string |-> <<" ">> \o res \o <<"\n">>],
     metas |-> << [name |-> <<"description">>, property |-> None,
                   content |-> <<s>>] >>,
     nodes |-> (IF s = "Mixed" /\ res = <<"a.com", "/">>
                THEN << [tag |-> "h1", inside |-> "body",
                         text |-> <<"Mixed">>, href |-> None],
                        [tag |-> "nav", inside |-> "body",
                         text |-> <<>>, href |-> None],
                        [tag |-> "a", inside |-> "nav",
                         text |-> <<"menu">>, href |-> <<"/", "n">>] >>
                ELSE <<>>)
               \o [i \in 1..Len(SiteHrefs(s, res)) |->
                      [tag |-> "a", inside |-> "p", text |-> <<"link", " ">>,
                       href |-> SiteHrefs(s, res)[i]]]]

\* The sets of resources whose fetch or extraction fails.
DownChoices ==
    { {},
      {<<"a.com", "/", "p">>},
      {<<"a.com", "/", "q">>},
      {<<"a.com", "/">>},
      {<<"a.com", "/", "p">>, <<"a.com", "/", "q">>} }

\* The start_url arguments callers pass to scrape_website.
RawSeeds ==
    { <<"a.com">>,
      <<"https://", "a.com", "/">>,
      <<" ", "https://", "a.com", "/", "p", "/", "#", "f">>,
      <<"https://", "sub.a.com", "/", "p">>,
      <<"not", " ", "a", " ", "url">>,
      <<>> }

\* self.url_validator.normalize_url(start_url), line 114, of each of them.
NormalizedSeed == [raw \in RawSeeds |-> NormalizeUrl(raw)]

\* The text typed into the URL field of the front end: every sequence of at
\* most MaxUrlLen of these tokens.
UrlTokens == {"https://", "http://", "a.com", "/", "p", "?", "#", " "}

RawUrls == UNION {[1..n -> UrlTokens] : n \in 0..MaxUrlLen}

\* The documents _scrape_page is given: a head and at most MaxNodes of
\* these elements.
HeadChoices ==
    { [title |-> [present |-> FALSE, string |-> None], metas |-> <<>>],
      [title |-> [present |-> TRUE, string |-> None], metas |-> <<>>],
      [title |-> [present |-> TRUE, string |-> <<" ", "Title", "\n">>],
       metas |-> << [name |-> <<"description">>, property |-> None,
                     content |-> <<"first">>],
                    [name |-> None, property |-> <<"og:title">>,
                     content |-> <<"t">>],
                    [name |-> <<"description">>, property |-> None,
                     content |-> <<"last">>],
                    [name |-> <<"keywords">>, property |-> None,
                     content |-> None] >>] }

NodeChoices ==
    { [tag |-> "a", inside |-> "body", text |-> <<"top">>,
       href |-> <<"#", "top">>],
      [tag |-> "a", inside |-> "p", text |-> <<"mail">>,
       href |-> <<"mailto:", "x">>],
      [tag |-> "a", inside |-> "body", text |-> <<"About">>,
       href |-> <<"/", "about">>],
      [tag |-> "a", inside |-> "p", text |-> <<"About">>,
       href |-> <<"about">>],
      [tag |-> "a", inside |-> "body", text |-> <<"other">>,
       href |-> <<"https://", "b.com", "/">>],
      [tag |-> "a", inside |-> "body", text |-> <<"name">>, href |-> None],
      [tag |-> "a", inside |-> "body", text |-> <<"run">>,
       href |-> <<"javascript:", "x">>],
      [tag |-> "a", inside |-> "body", text |-> <<"broken">>,
       href |-> <<"http://", "/", "x">>],
      [tag |-> "a", inside |-> "nav", text |-> <<"Home">>,
       href |-> <<"/", "home">>],
      [tag |-> "h1", inside |-> "header", text |-> <<" ", "Heading", " ">>,
       href |-> None],
      [tag |-> "p", inside |-> "body",
       text |-> <<"Hello", " ", " ", "World">>, href |-> None],
      [tag |-> "p", inside |-> "body",
       text |-> <<"\n", "Tab", " ", "\t", "bed", "\t">>, href |-> None],
      [tag |-> "script", inside |-> "body", text |-> <<"ignored">>,
       href |-> None] }

Soups ==
    {[title |-> head.title, metas |-> head.metas, nodes |-> nodes]
     : head \in HeadChoices,
       nodes \in UNION {[1..n -> NodeChoices] : n \in 0..MaxNodes}}

EmptySoup == [title |-> [present |-> FALSE, string |-> None],
              metas |-> <<>>, nodes |-> <<>>]

\* The URLs the documents are fetched from.
BaseUrls == { <<"https://", "a.com", "/">>,
              <<"https://", "a.com", "/", "docs", "/", "page">> }

VARIABLES
    max_depth,      \* WebScraper.max_depth
    max_pages,      \* WebScraper.max_pages
    site,           \* the site the session fetches from
    down,           \* the resources of the site that fail
    visited_urls,   \* WebScraper.visited_urls
    scraped_pages,  \* WebScraper.scraped_pages
    status,         \* "Idle", "Running", "Completed" or "Failed" (raised);
                    \* in the front end also "Submitted", "Rejected" and
                    \* "Stored"
    call_arg,       \* start_url of the latest scrape_website call
    start_url,      \* normalized_url of the latest valid call
    stack,          \* the frames of _crawl_recursive, innermost last
    fetched,        \* the session.get requests of the session, in order
    pauses,         \* the time.sleep(self.delay) calls of the session
    history,        \* what earlier completed calls returned, per seed
    website_url,    \* main: the text of the URL field
    normalized_url, \* main: normalize_url(website_url)
    soup,           \* _scrape_page: the parsed response
    scraped_page,   \* _scrape_page: the page returned, if any
    summary,        \* the caller's latest get_scrape_summary(), if any
    returned_pages, \* the list a scrape_website call returned to the caller
    calls,          \* the scrape_and_store_website calls of the session
    clock,          \* the latest reading of time.time()
    db_type,        \* VectorDatabase.db_type
    collection,     \* the documents the application finds in the store,
                    \* by id: with SQLite what its connection reads, the
                    \* rows of its open transaction included
    success,        \* what the latest add_documents call returned, if any
    committed,      \* the rows of the SQLite file, by id
    sqlite_conn,    \* VectorDatabase.sqlite_conn: "none", "open", "closed"
    inserted,       \* the INSERT statements the running _add_documents_sqlite
                    \* has executed
    other,          \* another session's clear_collection: "idle", or
                    \* "deleted" between its DELETE and its commit
    trigger,        \* the interaction whose script run is pending, or
                    \* "deleted" between the DELETE and the commit of
                    \* the run's clear_collection
    checkbox,       \* the confirmation checkbox as the last run left it
    website_to_clear, \* the text of the "Website URL to clear" field
    cleared,        \* whether clear_collection has been invoked
    ticked          \* whether the user has ticked the confirmation checkbox

vars == <<max_depth, max_pages, site, down, visited_urls, scraped_pages,
          status, call_arg, start_url, stack, fetched, pauses, history,
          website_url, normalized_url, soup, scraped_page, summary,
          returned_pages, calls, clock, db_type, collection, success,
          committed, sqlite_conn, inserted, other, trigger, checkbox,
          website_to_clear, cleared, ticked>>

config == <<max_depth, max_pages, site, down>>

\* The variables of the front end, of a single _scrape_page call and of
\* the caller of get_scrape_summary.
unit == <<website_url, normalized_url, soup, scraped_page, summary,
          returned_pages, calls, db_type, collection, success, committed,
          sqlite_conn, inserted, other, trigger, checkbox,
          website_to_clear, cleared, ticked>>

\* The variables of the database.
backend == <<db_type, collection, success, committed, sqlite_conn, inserted,
             other>>

\* The variables of the scraper and of its callers.
session == <<config, clock, pauses, visited_urls, scraped_pages, status, call_arg,
             start_url, stack, fetched, history, website_url, normalized_url,
             soup, scraped_page, summary, returned_pages, calls>>

\* The variables of the Danger Zone of the Settings page.
danger == <<trigger, checkbox, website_to_clear, cleared, ticked>>

\* The front end before any interaction.
Untouched ==
    /\ calls = 0
    /\ trigger = "none"
    /\ checkbox = "absent"
    /\ website_to_clear = <<>>
    /\ cleared = FALSE
    /\ ticked = FALSE

\* VectorDatabase.__init__ on an empty store.
Initialized(type) ==
    /\ db_type = type
    /\ collection = <<>>
    /\ success = <<>>
    /\ committed = <<>>
    /\ sqlite_conn = (IF type = "sqlite" THEN "open" ELSE "none")
    /\ inserted = 0
    /\ other = "idle"

\* WebScraper.__init__, lines 90-95.
Constructed ==
    /\ visited_urls = {}
    /\ scraped_pages = <<>>
    /\ status = "Idle"
    /\ call_arg = <<>>
    /\ start_url = None
    /\ stack = <<>>
    /\ fetched = <<>>
    /\ pauses = 0
    /\ history = {}

Init ==
    /\ max_depth \in 0..MaxDepthBound
    /\ max_pages \in 0..MaxPagesBound
    /\ site \in Sites
    /\ down \in DownChoices
    /\ Constructed
    /\ website_url = <<>>
    /\ normalized_url = None
    /\ soup = EmptySoup
    /\ scraped_page = <<>>
    /\ summary = <<>>
    /\ returned_pages = <<>>
    /\ Initialized("chromadb")
    /\ Untouched
    /\ clock = 0

Top == stack[Len(stack)]
Pop == SubSeq(stack, 1, Len(stack) - 1)
SetTop(f) == [stack EXCEPT ![Len(stack)] = f]

\* Mutant of BudgetReached: > instead of >=.
BudgetReachedOffByOne == Len(scraped_pages) > max_pages

\* len(self.scraped_pages) >= self.max_pages (lines 144 and 172)
BudgetReached == Len(scraped_pages) >= max_pages

\* Mutant of DepthExceeded: one level too deep.
DepthExceededOffByOne(depth) == depth > max_depth + 1

\* depth > self.max_depth
DepthExceeded(depth) == depth > max_depth

\* The returned list of a completed call, remembered when the next call
\* begins.
Recorded ==
    IF status = "Completed"
    THEN {h \in history : h.seed # start_url}
             \cup {[seed |-> start_url, pages |-> scraped_pages]}
    ELSE history

\* Mutant of ScrapeWebsiteInvalid: the state is reset before the seed is
\* validated.
ScrapeWebsiteInvalidAfterReset(raw) ==
    /\ status # "Running"
    /\ NormalizedSeed[raw] = None
    /\ status' = "Failed"
    /\ call_arg' = raw
    /\ visited_urls' = {}
    /\ scraped_pages' = <<>>
    /\ UNCHANGED <<config, clock, pauses, start_url, stack, fetched>>

(***************************************************************************)
(* scrape_website, invalid start URL: ValueError before any state is       *)
(* touched.                                                                *)
(***************************************************************************)
ScrapeWebsiteInvalid(raw) ==
    /\ status # "Running"
    /\ NormalizedSeed[raw] = None
    /\ status' = "Failed"
    /\ call_arg' = raw
    /\ UNCHANGED <<config, clock, pauses, visited_urls, scraped_pages, start_url, stack,
                   fetched>>

\* Mutant of ScrapeWebsiteStart: visited_urls is not cleared.
ScrapeWebsiteStartKeepsVisited(raw) ==
    /\ status # "Running"
    /\ NormalizedSeed[raw] # None
    /\ status' = "Running"
    /\ call_arg' = raw
    /\ start_url' = NormalizedSeed[raw]
    /\ scraped_pages' = <<>>
    /\ fetched' = <<>>
    /\ stack' = <<[url |-> NormalizedSeed[raw], depth |-> 0, pc |-> "enter",
                   links |-> <<>>, idx |-> 1]>>
    /\ pauses' = 0
    /\ UNCHANGED <<config, clock, visited_urls>>

(***************************************************************************)
(* scrape_website, valid start URL: reset the state and call               *)
(* _crawl_recursive(normalized_url, depth=0).                              *)
(***************************************************************************)
ScrapeWebsiteStart(raw) ==
    /\ status # "Running"
    /\ NormalizedSeed[raw] # None
    /\ status' = "Running"
    /\ call_arg' = raw
    /\ start_url' = NormalizedSeed[raw]
    /\ visited_urls' = {}
    /\ scraped_pages' = <<>>
    /\ fetched' = <<>>
    /\ stack' = <<[url |-> NormalizedSeed[raw], depth |-> 0, pc |-> "enter",
                   links |-> <<>>, idx |-> 1]>>
    /\ pauses' = 0
    /\ UNCHANGED <<config, clock>>

(***************************************************************************)
(* _crawl_recursive, lines 139-156: the stopping conditions, the visited   *)
(* check and the visited mark.                                             *)
(***************************************************************************)
CrawlDepthStop ==
    /\ status = "Running" /\ stack # <<>> /\ Top.pc = "enter"
    /\ DepthExceeded(Top.depth)
    /\ stack' = Pop
    /\ UNCHANGED <<config, clock, pauses, visited_urls, scraped_pages, status, call_arg,
                   start_url, fetched>>

CrawlBudgetStop ==
    /\ status = "Running" /\ stack # <<>> /\ Top.pc = "enter"
    /\ ~DepthExceeded(Top.depth)
    /\ BudgetReached
    /\ stack' = Pop
    /\ UNCHANGED <<config, clock, pauses, visited_urls, scraped_pages, status, call_arg,
                   start_url, fetched>>

CrawlSkipVisited ==
    /\ status = "Running" /\ stack # <<>> /\ Top.pc = "enter"
    /\ ~DepthExceeded(Top.depth)
    /\ ~BudgetReached
    /\ CleanUrl(Top.url) \in visited_urls
    /\ stack' = Pop
    /\ UNCHANGED <<config, clock, pauses, visited_urls, scraped_pages, status, call_arg,
                   start_url, fetched>>

\* Mutant of CrawlMark: the URL is marked as given, before it is cleaned.
CrawlMarkUncleaned ==
    /\ status = "Running" /\ stack # <<>> /\ Top.pc = "enter"
    /\ ~DepthExceeded(Top.depth)
    /\ ~BudgetReached
    /\ CleanUrl(Top.url) \notin visited_urls
    /\ visited_urls' = visited_urls \cup {Top.url}
    /\ stack' = SetTop([Top EXCEPT !.url = CleanUrl(Top.url), !.pc = "fetch"])
    /\ UNCHANGED <<config, clock, pauses, scraped_pages, status, call_arg, start_url,
                   fetched>>

\* Mutant of CrawlMark: the page budget is not checked on entry.
CrawlMarkIgnoresBudget ==
    /\ status = "Running" /\ stack # <<>> /\ Top.pc = "enter"
    /\ ~DepthExceeded(Top.depth)
    /\ CleanUrl(Top.url) \notin visited_urls
    /\ visited_urls' = visited_urls \cup {CleanUrl(Top.url)}
    /\ stack' = SetTop([Top EXCEPT !.url = CleanUrl(Top.url), !.pc = "fetch"])
    /\ UNCHANGED <<config, clock, pauses, scraped_pages, status, call_arg, start_url,
                   fetched>>

CrawlMark ==
    /\ status = "Running" /\ stack # <<>> /\ Top.pc = "enter"
    /\ ~DepthExceeded(Top.depth)
    /\ ~BudgetReached
    /\ CleanUrl(Top.url) \notin visited_urls
    /\ visited_urls' = visited_urls \cup {CleanUrl(Top.url)}
    /\ stack' = SetTop([Top EXCEPT !.url = CleanUrl(Top.url), !.pc = "fetch"])
    /\ UNCHANGED <<config, clock, pauses, scraped_pages, status, call_arg, start_url,
                   fetched>>

(***************************************************************************)
(* _scrape_page, called at line 161.  A request or extraction error gives  *)
(* None and _crawl_recursive returns; otherwise the page is appended and   *)
(* the loop over its links begins.                                         *)
(***************************************************************************)
\* Mutant of ScrapeFail: a failed URL is taken out of visited_urls again.
ScrapeFailUnmarks ==
    /\ status = "Running" /\ stack # <<>> /\ Top.pc = "fetch"
    /\ Resource(Top.url) \in down
    /\ fetched' = Append(fetched, [url |-> Top.url, depth |-> Top.depth,
                                  ok |-> FALSE, pauses |-> pauses])
    /\ visited_urls' = visited_urls \ {Top.url}
    /\ stack' = Pop
    /\ UNCHANGED <<config, clock, pauses, scraped_pages, status, call_arg, start_url>>

\* Mutant of ScrapeFail: the error is not caught and ends the whole call.
ScrapeFailPropagates ==
    /\ status = "Running" /\ stack # <<>> /\ Top.pc = "fetch"
    /\ Resource(Top.url) \in down
    /\ fetched' = Append(fetched, [url |-> Top.url, depth |-> Top.depth,
                                  ok |-> FALSE, pauses |-> pauses])
    /\ stack' = <<>>
    /\ status' = "Failed"
    /\ UNCHANGED <<config, clock, pauses, visited_urls, scraped_pages, call_arg, start_url>>

ScrapeFail ==
    /\ status = "Running" /\ stack # <<>> /\ Top.pc = "fetch"
    /\ Resource(Top.url) \in down
    /\ fetched' = Append(fetched, [url |-> Top.url, depth |-> Top.depth,
                                  ok |-> FALSE, pauses |-> pauses])
    /\ stack' = Pop
    /\ UNCHANGED <<config, clock, pauses, visited_urls, scraped_pages, status, call_arg,
                   start_url>>

\* The links _extract_links finds on the page served for the URL.
LinksOf(url) ==
    CHOOSE r \in
        {ExtractLinks(AnchorHrefs(Decompose(SiteSoup(site, Resource(u)))), u)
         : u \in {url}} : TRUE

\* Mutant of ScrapeOk: the page is put in front of the list.
ScrapeOkPrepends ==
    /\ status = "Running" /\ stack # <<>> /\ Top.pc = "fetch"
    /\ Resource(Top.url) \notin down
    /\ \E now \in clock..MaxClock :
           /\ clock' = now
           /\ scraped_pages' =
                  <<ScrapePage(Top.url, Top.depth,
                               SiteSoup(site, Resource(Top.url)), now)>>
                      \o scraped_pages
    /\ stack' = SetTop([Top EXCEPT !.pc = "loop", !.links = LinksOf(Top.url),
                                   !.idx = 1])
    /\ fetched' = Append(fetched, [url |-> Top.url, depth |-> Top.depth,
                                  ok |-> TRUE, pauses |-> pauses])
    /\ UNCHANGED <<config, pauses, visited_urls, status, call_arg, start_url>>

ScrapeOk ==
    /\ status = "Running" /\ stack # <<>> /\ Top.pc = "fetch"
    /\ Resource(Top.url) \notin down
    /\ \E now \in clock..MaxClock :
           /\ clock' = now
           /\ scraped_pages' = Append(scraped_pages,
                  ScrapePage(Top.url, Top.depth,
                             SiteSoup(site, Resource(Top.url)), now))
    /\ stack' = SetTop([Top EXCEPT !.pc = "loop", !.links = LinksOf(Top.url),
                                   !.idx = 1])
    /\ fetched' = Append(fetched, [url |-> Top.url, depth |-> Top.depth,
                                  ok |-> TRUE, pauses |-> pauses])
    /\ UNCHANGED <<config, pauses, visited_urls, status, call_arg, start_url>>

(***************************************************************************)
(* The loop over scraped_page.links, lines 170-179.                        *)
(***************************************************************************)
LoopDone ==
    /\ status = "Running" /\ stack # <<>> /\ Top.pc = "loop"
    /\ Top.idx > Len(Top.links)
    /\ stack' = Pop
    /\ UNCHANGED <<config, clock, pauses, visited_urls, scraped_pages, status, call_arg,
                   start_url, fetched>>

LoopBreak ==
    /\ status = "Running" /\ stack # <<>> /\ Top.pc = "loop"
    /\ Top.idx <= Len(Top.links)
    /\ BudgetReached
    /\ stack' = Pop
    /\ UNCHANGED <<config, clock, pauses, visited_urls, scraped_pages, status, call_arg,
                   start_url, fetched>>

LoopSkip ==
    /\ status = "Running" /\ stack # <<>> /\ Top.pc = "loop"
    /\ Top.idx <= Len(Top.links)
    /\ ~BudgetReached
    /\ ~IsSameDomain(Top.url, Top.links[Top.idx])
    /\ stack' = SetTop([Top EXCEPT !.idx = Top.idx + 1])
    /\ UNCHANGED <<config, clock, pauses, visited_urls, scraped_pages, status, call_arg,
                   start_url, fetched>>

\* Mutant of LoopFollow: the loop does not move on to the next link, and
\* takes no pause.
LoopFollowStaysOnLink ==
    /\ status = "Running" /\ stack # <<>> /\ Top.pc = "loop"
    /\ Top.idx <= Len(Top.links)
    /\ ~BudgetReached
    /\ IsSameDomain(Top.url, Top.links[Top.idx])
    /\ pauses' = pauses
    /\ stack' = Append(stack,
                       [url |-> Top.links[Top.idx], depth |-> Top.depth + 1,
                        pc |-> "enter", links |-> <<>>, idx |-> 1])
    /\ UNCHANGED <<config, clock, visited_urls, scraped_pages, status, call_arg,
                   start_url, fetched>>

\* Mutant of LoopFollow: the links are followed last to first.
LoopFollowReversed ==
    /\ status = "Running" /\ stack # <<>> /\ Top.pc = "loop"
    /\ Top.idx <= Len(Top.links)
    /\ ~BudgetReached
    /\ IsSameDomain(Top.url, Top.links[Len(Top.links) + 1 - Top.idx])
    /\ pauses' = pauses + 1
    /\ stack' = Append(SetTop([Top EXCEPT !.idx = Top.idx + 1]),
                       [url |-> Top.links[Len(Top.links) + 1 - Top.idx],
                        depth |-> Top.depth + 1,
                        pc |-> "enter", links |-> <<>>, idx |-> 1])
    /\ UNCHANGED <<config, clock, visited_urls, scraped_pages, status, call_arg,
                   start_url, fetched>>

\* Mutant of LoopFollow: the recursive call is made without the delay.
LoopFollowWithoutSleep ==
    /\ status = "Running" /\ stack # <<>> /\ Top.pc = "loop"
    /\ Top.idx <= Len(Top.links)
    /\ ~BudgetReached
    /\ IsSameDomain(Top.url, Top.links[Top.idx])
    /\ pauses' = pauses
    /\ stack' = Append(SetTop([Top EXCEPT !.idx = Top.idx + 1]),
                       [url |-> Top.links[Top.idx], depth |-> Top.depth + 1,
                        pc |-> "enter", links |-> <<>>, idx |-> 1])
    /\ UNCHANGED <<config, clock, visited_urls, scraped_pages, status, call_arg,
                   start_url, fetched>>

LoopFollow ==
    /\ status = "Running" /\ stack # <<>> /\ Top.pc = "loop"
    /\ Top.idx <= Len(Top.links)
    /\ ~BudgetReached
    /\ IsSameDomain(Top.url, Top.links[Top.idx])
    /\ pauses' = pauses + 1
    /\ stack' = Append(SetTop([Top EXCEPT !.idx = Top.idx + 1]),
                       [url |-> Top.links[Top.idx], depth |-> Top.depth + 1,
                        pc |-> "enter", links |-> <<>>, idx |-> 1])
    /\ UNCHANGED <<config, clock, visited_urls, scraped_pages, status, call_arg,
                   start_url, fetched>>

(***************************************************************************)
(* scrape_website returns self.scraped_pages, line 129.                    *)
(***************************************************************************)
ScrapeReturn ==
    /\ status = "Running" /\ stack = <<>>
    /\ status' = "Completed"
    /\ UNCHANGED <<config, clock, pauses, visited_urls, scraped_pages, call_arg, start_url,
                   stack, fetched>>

CrawlStep ==
    \/ CrawlDepthStop
    \/ CrawlBudgetStop
    \/ CrawlSkipVisited
    \/ CrawlMark
    \/ ScrapeFail
    \/ ScrapeOk
    \/ LoopDone
    \/ LoopBreak
    \/ LoopSkip
    \/ LoopFollow
    \/ ScrapeReturn

\* A caller's scrape_website call on the controller.
Call ==
    /\ \/ \E raw \in RawSeeds : ScrapeWebsiteInvalid(raw)
       \/ \E raw \in RawSeeds : ScrapeWebsiteStart(raw)
    /\ UNCHANGED unit

\* The steps of a running scrape_website call.
CrawlRuns == CrawlStep /\ history' = history /\ UNCHANGED unit

\* Calls and crawl steps.
Next ==
    \/ Call /\ history' = history
    \/ CrawlRuns

Spec == Init /\ [][Next]_vars

\* The crawl is a running Python call: it keeps executing until it returns.
FairSpec == Init /\ [][Next]_vars /\ WF_vars(CrawlRuns)

\* The same controller with an observer: history keeps what each completed
\* call returned.
NextObserved ==
    \/ Call /\ history' = Recorded
    \/ CrawlRuns

RerunInit ==
    /\ Init
    /\ max_depth = MaxDepthBound
    /\ max_pages \in {0, MaxPagesBound}

RerunSpec == RerunInit /\ [][NextObserved]_vars

(***************************************************************************)
(* get_scrape_summary, lines 337-350, called between scrape_website calls. *)
(***************************************************************************)
RECURSIVE MaxDepthOf(_)
MaxDepthOf(pages) ==
    IF pages = <<>> THEN 0
    ELSE CHOOSE r \in
        {IF Head(pages).depth > m THEN Head(pages).depth ELSE m
         : m \in {MaxDepthOf(Tail(pages))}} : TRUE

\* len(str) of a string of tokens: the characters of its tokens.
RECURSIVE CharLen(_)
CharLen(str) ==
    IF str = <<>> THEN 0 ELSE Len(Head(str)) + CharLen(Tail(str))

RECURSIVE ContentLength(_)
ContentLength(pages) ==
    IF pages = <<>> THEN 0
    ELSE CharLen(Head(pages).content) + ContentLength(Tail(pages))

\* Mutant of GetScrapeSummary: the depth of the last page is taken for the
\* maximum.
GetScrapeSummaryLastDepth ==
    [total_pages          |-> Len(scraped_pages),
     total_urls_visited   |-> Cardinality(visited_urls),
     max_depth_reached    |-> IF scraped_pages = <<>> THEN 0
                              ELSE scraped_pages[Len(scraped_pages)].depth,
     total_content_length |-> ContentLength(scraped_pages),
     unique_domains       |->
         Cardinality({GetDomain(scraped_pages[i].url)
                      : i \in 1..Len(scraped_pages)})]

GetScrapeSummary ==
    [total_pages          |-> Len(scraped_pages),
     total_urls_visited   |-> Cardinality(visited_urls),
     max_depth_reached    |-> MaxDepthOf(scraped_pages),
     total_content_length |-> ContentLength(scraped_pages),
     unique_domains       |->
         Cardinality({GetDomain(scraped_pages[i].url)
                      : i \in 1..Len(scraped_pages)})]

GetScrapeSummaryCall ==
    /\ status # "Running"
    /\ summary' = <<GetScrapeSummary>>
    /\ UNCHANGED <<config, clock, pauses, visited_urls, scraped_pages, status,
                   call_arg, start_url, stack, fetched, history, website_url,
                   normalized_url, soup, scraped_page, returned_pages, calls,
                   backend, danger>>

SummaryNext ==
    \/ Next
    \/ GetScrapeSummaryCall

SummarySpec == Init /\ [][SummaryNext]_vars

(***************************************************************************)
(* The caller of scrape_website keeps what the call returned (as in line   *)
(* 358, pages = scraper.scrape_website(...)).  Line 129 returns the list   *)
(* self.scraped_pages itself, not a copy: from then on the caller's list   *)
(* and the controller's list are one object, and whatever lines 123 and    *)
(* 164 do to the one is seen through the other.                            *)
(***************************************************************************)
CallerList ==
    IF returned_pages = <<>> THEN <<>> ELSE <<scraped_pages'>>

CallWhileHolding ==
    /\ \/ \E raw \in RawSeeds : ScrapeWebsiteInvalid(raw)
       \/ \E raw \in RawSeeds : ScrapeWebsiteStart(raw)
    /\ returned_pages' = CallerList
    /\ UNCHANGED <<history, website_url, normalized_url, soup, scraped_page,
                   summary, calls, backend, danger>>

CrawlWhileHolding ==
    /\ CrawlStep
    /\ returned_pages' = IF status' = "Completed"
                            THEN <<scraped_pages'>> ELSE CallerList
    /\ UNCHANGED <<history, website_url, normalized_url, soup, scraped_page,
                   summary, calls, backend, danger>>

ReturnNext ==
    \/ CallWhileHolding
    \/ CrawlWhileHolding

ReturnSpec == Init /\ [][ReturnNext]_vars

(***************************************************************************)
(* Storing a crawl: scrape_and_store_website, app.py lines 95-122, hands   *)
(* the fields of the records to add_documents, vector_db.py lines 154-186. *)
(***************************************************************************)
\* url.replace('/', '_').replace(':', '_').replace('.', '_') on one token.
ReplaceIn(token) ==
    IF token = "https://" THEN <<"https", "_", "_", "_">>
    ELSE IF token = "http://" THEN <<"http", "_", "_", "_">>
    ELSE IF token = "a.com" THEN <<"a", "_", "com">>
    ELSE IF token = "b.com" THEN <<"b", "_", "com">>
    ELSE IF token = "sub.a.com" THEN <<"sub", "_", "a", "_", "com">>
    ELSE IF token \in {"/", ":", "."} THEN <<"_">>
    ELSE <<token>>

\* Lines 239 and 303: the id of the document of a URL.
DocId(url) == Concat([i \in 1..Len(url) |-> ReplaceIn(url[i])])

\* datetime.now().isoformat(), whatever the time is.
Now == <<"<now>">>

\* Lines 249-254: the entries _add_documents_chromadb assigns in the
\* metadata dictionary it was given.
Stamp(metadata, url, title, website) ==
    (<<"url">> :> url) @@ (<<"title">> :> title)
        @@ (IF website # <<>> THEN <<"website_url">> :> website ELSE <<>>)
        @@ (<<"timestamp">> :> Now) @@ metadata

JsonDumps(value) == [json |-> value]

\* _sanitize_metadata, lines 188-224: the list of headings is the one
\* entry of a record's metadata that is no string.
SanitizeMetadata(metadata) ==
    [key \in DOMAIN metadata |->
        IF key = <<"headings">> THEN JsonDumps(metadata[key])
        ELSE metadata[key]]

Ids(pages) == [i \in 1..Len(pages) |-> DocId(pages[i].url)]

\* Lines 249-254, on the dictionaries of the records themselves: line 107
\* of app.py lists page.metadata, not copies.
StampAll(pages, website) ==
    [i \in 1..Len(pages) |->
        [pages[i] EXCEPT !.metadata =
            Stamp(pages[i].metadata, pages[i].url, pages[i].title, website)]]

\* collection.add of ids none of which is stored: documents of lines 242
\* and 257.
RECURSIVE ChromaAdd(_, _)
ChromaAdd(coll, pages) ==
    IF pages = <<>> THEN coll
    ELSE ChromaAdd(
             coll @@ (DocId(Head(pages).url) :>
                 [document |-> Head(pages).title \o <<"\n", "\n">>
                                  \o Head(pages).content,
                  metadata |-> SanitizeMetadata(Head(pages).metadata)]),
             Tail(pages))

\* Lines 296-318: INSERT OR REPLACE, row by row.
RECURSIVE SqliteInsert(_, _, _)
SqliteInsert(coll, pages, website) ==
    IF pages = <<>> THEN coll
    ELSE SqliteInsert(
             (DocId(Head(pages).url) :>
                 [url         |-> Head(pages).url,
                  title       |-> Head(pages).title,
                  content     |-> Head(pages).content,
                  metadata    |-> JsonDumps(Head(pages).metadata),
                  timestamp   |-> Now,
                  website_url |-> website]) @@ coll,
             Tail(pages), website)

Unstored(pages) ==
    SelectSeq(pages, LAMBDA page : DocId(page.url) \notin DOMAIN collection)

\* The variables of a scrape_and_store_website call besides its records,
\* its position and its result.
caller == <<config, clock, pauses, visited_urls, call_arg, start_url, stack, fetched,
            history, website_url, normalized_url, soup, scraped_page,
            returned_pages, calls>>

\* No scrape_and_store_website call is running in the session.
AtRest == {"Idle", "Failed", "Empty", "Stored", "Stopped"}

\* app.py lines 78-95: a new WebScraper and its scrape_website(url); the
\* ValueError of an invalid url is caught at line 127 and None returned.
ScrapeAndStoreCall(raw) ==
    /\ status \in AtRest
    /\ calls < MaxCalls
    /\ calls' = calls + 1
    /\ call_arg' = raw
    /\ visited_urls' = {}
    /\ scraped_pages' = <<>>
    /\ fetched' = <<>>
    /\ pauses' = 0
    /\ IF NormalizedSeed[raw] = None
       THEN /\ status' = "Failed"
            /\ start_url' = None
            /\ stack' = <<>>
       ELSE /\ status' = "Running"
            /\ start_url' = NormalizedSeed[raw]
            /\ stack' = <<[url |-> NormalizedSeed[raw], depth |-> 0,
                           pc |-> "enter", links |-> <<>>, idx |-> 1]>>
    /\ summary' = <<>>
    /\ success' = <<>>
    /\ UNCHANGED <<config, clock, history, website_url, normalized_url, soup,
                   scraped_page, returned_pages, db_type, collection,
                   committed, sqlite_conn, inserted, other, danger>>

\* Lines 97-99: scrape_website returned no page.
NothingScraped ==
    /\ status = "Completed"
    /\ scraped_pages = <<>>
    /\ status' = "Empty"
    /\ UNCHANGED <<caller, scraped_pages, summary, backend, danger>>

\* _add_documents_chromadb, lines 226-273, one library call on the
\* collection.  collection.add raises when two ids of the batch are equal;
\* for an id that is stored already it raises or leaves the stored document
\* in place, depending on the library; and it can fail for reasons of its
\* own.
AddDocumentsChromadb(raises) ==
    /\ status = "Completed"
    /\ scraped_pages # <<>>
    /\ db_type = "chromadb"
    /\ scraped_pages' = StampAll(scraped_pages, call_arg)
    /\ IF \/ raises
          \/ \E i, j \in 1..Len(scraped_pages) :
                 i # j /\ Ids(scraped_pages)[i] = Ids(scraped_pages)[j]
       THEN /\ success' = <<FALSE>>
            /\ collection' = collection
       ELSE /\ success' = <<TRUE>>
            /\ collection' = ChromaAdd(collection, Unstored(scraped_pages'))
    /\ status' = "Added"
    /\ UNCHANGED <<caller, summary, db_type, committed, sqlite_conn,
                   inserted, other, danger>>

\* _add_documents_sqlite, lines 285-306: one iteration of the loop, the
\* INSERT OR REPLACE of the next page.  The row is in the open transaction
\* of the connection.  A statement that raises ends the call (line 312),
\* and every statement raises without an open connection.
SqliteInsertRow ==
    /\ status \in {"Completed", "Storing"}
    /\ scraped_pages # <<>>
    /\ db_type = "sqlite"
    /\ inserted < Len(scraped_pages)
    /\ \E raises \in (IF sqlite_conn = "open" THEN BOOLEAN ELSE {TRUE}) :
           IF raises
           THEN /\ success' = <<FALSE>>
                /\ status' = "Added"
                /\ inserted' = 0
                /\ collection' = collection
           ELSE /\ success' = success
                /\ status' = "Storing"
                /\ inserted' = inserted + 1
                /\ collection' =
                       SqliteInsert(collection,
                                    <<scraped_pages[inserted + 1]>>, call_arg)
    /\ UNCHANGED <<caller, scraped_pages, summary, db_type, committed,
                   sqlite_conn, other, danger>>

\* Lines 308-310: the commit after the loop stores whatever the
\* transaction of the connection holds.
SqliteCommit ==
    /\ status = "Storing"
    /\ db_type = "sqlite"
    /\ inserted = Len(scraped_pages)
    /\ \E raises \in (IF sqlite_conn = "open" THEN BOOLEAN ELSE {TRUE}) :
           IF raises
           THEN /\ success' = <<FALSE>>
                /\ committed' = committed
           ELSE /\ success' = <<TRUE>>
                /\ committed' = collection
    /\ status' = "Added"
    /\ inserted' = 0
    /\ UNCHANGED <<caller, scraped_pages, summary, db_type, collection,
                   sqlite_conn, other, danger>>

\* The statements of _add_documents_sqlite, lines 275-318.
AddDocumentsSqlite == SqliteInsertRow \/ SqliteCommit

\* Lines 118-125: the summary is returned after a successful store.
StoreReturn ==
    /\ status = "Added"
    /\ summary' = IF success = <<TRUE>> THEN <<GetScrapeSummary>> ELSE <<>>
    /\ status' = "Stored"
    /\ UNCHANGED <<caller, scraped_pages, backend, danger>>

\* Streamlit ends the script at an st call (lines 98, 101, 118) when the
\* session has asked for a new run: nothing is stored after the crawl, or
\* nothing is returned after the store.
ScriptStopped ==
    /\ status \in {"Completed", "Added"}
    /\ status' = "Stopped"
    /\ UNCHANGED <<caller, scraped_pages, summary, backend, danger>>

\* The steps of a scrape_and_store_website call, app.py lines 66-129.
ScrapeAndStore ==
    \/ (\E raw \in RawSeeds : ScrapeAndStoreCall(raw))
    \/ CrawlRuns
    \/ NothingScraped
    \/ (\E raises \in BOOLEAN : AddDocumentsChromadb(raises))
    \/ AddDocumentsSqlite
    \/ StoreReturn
    \/ ScriptStopped

(***************************************************************************)
(* clear_collection, vector_db.py lines 490-520, and close, lines 553-557. *)
(* The VectorDatabase is one object for every session of the application   *)
(* (st.cache_resource, app.py line 51) and its SQLite connection is used   *)
(* by the threads of all of them.                                          *)
(***************************************************************************)
\* The website a stored document belongs to.
WebsiteOf(id) ==
    IF db_type = "chromadb"
    THEN (IF <<"website_url">> \in DOMAIN collection[id].metadata
          THEN collection[id].metadata[<<"website_url">>] ELSE <<>>)
    ELSE collection[id].website_url

\* The documents a clear_collection(website) leaves.
Remaining(website) ==
    IF website # <<>>
    THEN [id \in {d \in DOMAIN collection : WebsiteOf(d) # website}
             |-> collection[id]]
    ELSE <<>>

\* How a clear_collection call can end without an open SQLite connection;
\* every exception is logged and swallowed (lines 519-520).  Without a
\* connection the cursor() of line 511 raises.  "fallback": the collection
\* was deleted and _initialize_chromadb failed and went over to SQLite
\* (lines 107-111); "unconnected": so did _initialize_sqlite.
ClearOutcomes(website) ==
    IF db_type = "chromadb"
    THEN {"cleared", "failed"}
             \cup (IF website = <<>> THEN {"fallback", "unconnected"} ELSE {})
    ELSE {"failed"}

\* One clear_collection call without an open SQLite connection, lines
\* 498-509 or the failing line 511.  The library calls of the ChromaDB
\* branch are one step: what another session's clear does between them
\* fails or deletes what this call deletes.
ClearCollection(website) ==
    \E outcome \in ClearOutcomes(website) :
        /\ collection' =
               IF outcome = "failed" THEN collection
               ELSE IF outcome \in {"fallback", "unconnected"} THEN committed
               ELSE Remaining(website)
        /\ committed' = committed
        /\ db_type' =
               IF outcome \in {"fallback", "unconnected"} THEN "sqlite"
               ELSE db_type
        /\ sqlite_conn' = IF outcome = "fallback" THEN "open" ELSE sqlite_conn

WebsiteTexts == {<<>>, <<"https://", "a.com">>}

\* Another session's clear_collection call: with an open SQLite connection
\* up to its commit (lines 511-515), else the whole call.
OtherClear ==
    /\ other = "idle"
    /\ \E website \in WebsiteTexts :
           IF db_type = "sqlite" /\ sqlite_conn = "open"
           THEN /\ collection' = Remaining(website)
                /\ other' = "deleted"
                /\ UNCHANGED <<db_type, committed, sqlite_conn>>
           ELSE /\ ClearCollection(website)
                /\ other' = other
    /\ UNCHANGED <<session, success, inserted, danger>>

\* Line 516 of the other session's call: its commit stores the transaction
\* of the shared connection, or fails.
OtherCommit ==
    /\ other = "deleted"
    /\ other' = "idle"
    /\ \E raises \in (IF sqlite_conn = "open" THEN BOOLEAN ELSE {TRUE}) :
           committed' = IF raises THEN committed ELSE collection
    /\ UNCHANGED <<session, db_type, collection, success, sqlite_conn,
                   inserted, danger>>

\* close: the connection is closed and its open transaction rolled back;
\* collection is from then on what the file holds.
Close ==
    /\ sqlite_conn = "open"
    /\ sqlite_conn' = "closed"
    /\ collection' = committed
    /\ UNCHANGED <<session, db_type, committed, success, inserted, other,
                   danger>>

StoreInit ==
    /\ max_depth = MaxDepthBound
    /\ max_pages = MaxPagesBound
    /\ site \in {"Mixed", "Alike"}
    /\ down \in {{}, {<<"a.com", "/">>}}
    /\ Constructed
    /\ website_url = <<>>
    /\ normalized_url = None
    /\ soup = EmptySoup
    /\ scraped_page = <<>>
    /\ summary = <<>>
    /\ returned_pages = <<>>
    /\ \E type \in {"chromadb", "sqlite"} : Initialized(type)
    /\ Untouched
    /\ clock = 0

StoreNext ==
    \/ ScrapeAndStore
    \/ OtherClear
    \/ OtherCommit
    \/ Close

StoreSpec == StoreInit /\ [][StoreNext]_vars

(***************************************************************************)
(* The Danger Zone of the Settings page, app.py lines 366-383.  The script *)
(* runs from top to bottom after every interaction; st.button reads True   *)
(* in the run its click triggered and False in every other run, and a      *)
(* widget a run does not render loses its value.                           *)
(***************************************************************************)
\* The user presses "Clear Database".
ClickClearDatabase ==
    /\ trigger = "none" /\ status \in AtRest
    /\ trigger' = "button"
    /\ UNCHANGED <<checkbox, website_to_clear, cleared, ticked>>
    /\ UNCHANGED <<session, backend>>

\* The user ticks the checkbox the page shows.
TickConfirm ==
    /\ trigger = "none" /\ status \in AtRest
    /\ checkbox = "unticked"
    /\ checkbox' = "ticked"
    /\ trigger' = "checkbox"
    /\ ticked' = TRUE
    /\ UNCHANGED <<website_to_clear, cleared>>
    /\ UNCHANGED <<session, backend>>

\* The user edits the text field.
TypeWebsite ==
    /\ trigger = "none" /\ status \in AtRest
    /\ \E text \in WebsiteTexts \ {website_to_clear} :
           website_to_clear' = text
    /\ trigger' = "text"
    /\ UNCHANGED <<checkbox, cleared, ticked>>
    /\ UNCHANGED <<session, backend>>

\* The next step of the script run over lines 366-383.  With an open
\* SQLite connection clear_collection is two steps, its DELETE (lines
\* 511-515) and its commit (line 516), on the connection every session
\* shares; the success message of line 380 and the rerun of line 381
\* follow clear_collection however it ended.
ScriptRun ==
    /\ trigger # "none"
    /\ IF trigger = "deleted"
       THEN /\ \E raises \in (IF sqlite_conn = "open"
                               THEN BOOLEAN ELSE {TRUE}) :
                   committed' = IF raises THEN committed ELSE collection
            /\ trigger' = "rerun"
            /\ UNCHANGED <<db_type, collection, sqlite_conn, checkbox,
                           cleared>>
       ELSE IF trigger = "button"
       THEN IF checkbox = "ticked"
            THEN /\ IF db_type = "sqlite" /\ sqlite_conn = "open"
                    THEN /\ \E raises \in BOOLEAN :
                                IF raises
                                THEN /\ collection' = collection
                                     /\ trigger' = "rerun"
                                ELSE /\ collection' =
                                            Remaining(website_to_clear)
                                     /\ trigger' = "deleted"
                         /\ UNCHANGED <<db_type, committed, sqlite_conn>>
                    ELSE /\ ClearCollection(website_to_clear)
                         /\ trigger' = "rerun"
                 /\ cleared' = TRUE
                 /\ checkbox' = checkbox
            ELSE /\ checkbox' = "unticked"
                 /\ trigger' = "none"
                 /\ UNCHANGED <<db_type, collection, committed, sqlite_conn,
                                cleared>>
       ELSE /\ checkbox' = "absent"
            /\ trigger' = "none"
            /\ UNCHANGED <<db_type, collection, committed, sqlite_conn,
                           cleared>>
    /\ UNCHANGED <<website_to_clear, ticked>>
    /\ UNCHANGED <<session, success, inserted, other>>

\* The pages are scraped and stored by runs of the same script: the Danger
\* Zone is used between them.
SettingsNext ==
    \/ ScrapeAndStore /\ trigger = "none"
    \/ OtherClear
    \/ OtherCommit
    \/ Close
    \/ ClickClearDatabase
    \/ TickConfirm
    \/ TypeWebsite
    \/ ScriptRun

SettingsInit ==
    /\ StoreInit
    /\ site = "Alike"

SettingsSpec == SettingsInit /\ [][SettingsNext]_vars

(***************************************************************************)
(* The front end (app.py, main): the text of the URL field is normalized   *)
(* and, if valid, handed to scrape_website of a new WebScraper, which      *)
(* normalizes it again.  The crawl that follows is the subject of Spec.    *)
(***************************************************************************)
UrlInit ==
    /\ max_depth = MaxDepthBound
    /\ max_pages = MaxPagesBound
    /\ site = "Cycle"
    /\ down = {}
    /\ Constructed
    /\ website_url \in RawUrls
    /\ normalized_url = None
    /\ soup = EmptySoup
    /\ scraped_page = <<>>
    /\ summary = <<>>
    /\ returned_pages = <<>>
    /\ Initialized("chromadb")
    /\ Untouched
    /\ clock = 0

\* app.py, lines 192-201: nothing is done for an empty field.
MainNormalize ==
    /\ status = "Idle"
    /\ website_url # <<>>
    /\ normalized_url' = NormalizeUrl(website_url)
    /\ status' = IF NormalizeUrl(website_url) = None
                  THEN "Rejected" ELSE "Submitted"
    /\ UNCHANGED <<config, clock, pauses, visited_urls, scraped_pages, call_arg,
                   start_url, stack, fetched, history, website_url, soup,
                   scraped_page, summary, returned_pages, calls, backend,
                   danger>>

\* app.py, line 206: the call scrape_and_store_website(normalized_url,
\* ...), whose new WebScraper (lines 78-84) normalizes the url again in
\* scrape_website (web_scraper.py, lines 114-126).
MainScrape ==
    /\ status = "Submitted"
    /\ calls < MaxCalls
    /\ calls' = calls + 1
    /\ call_arg' = normalized_url
    /\ visited_urls' = {}
    /\ scraped_pages' = <<>>
    /\ fetched' = <<>>
    /\ pauses' = 0
    /\ IF NormalizeUrl(normalized_url) = None
       THEN /\ status' = "Failed"
            /\ start_url' = None
            /\ stack' = <<>>
       ELSE /\ status' = "Running"
            /\ start_url' = NormalizeUrl(normalized_url)
            /\ stack' = <<[url |-> NormalizeUrl(normalized_url), depth |-> 0,
                           pc |-> "enter", links |-> <<>>, idx |-> 1]>>
    /\ summary' = <<>>
    /\ success' = <<>>
    /\ UNCHANGED <<config, clock, history, website_url, normalized_url, soup,
                   scraped_page, returned_pages, db_type, collection,
                   committed, sqlite_conn, inserted, other, danger>>

UrlNext == MainNormalize \/ MainScrape

UrlSpec == UrlInit /\ [][UrlNext]_vars

(***************************************************************************)
(* One _scrape_page call on a parsed response.                             *)
(***************************************************************************)
ExtractInit ==
    /\ max_depth = MaxDepthBound
    /\ max_pages = MaxPagesBound
    /\ site = "Cycle"
    /\ down = {}
    /\ Constructed
    /\ website_url = <<>>
    /\ normalized_url = None
    /\ soup \in Soups
    /\ scraped_page = <<>>
    /\ summary = <<>>
    /\ returned_pages = <<>>
    /\ Initialized("chromadb")
    /\ Untouched
    /\ clock = 0

ScrapePageCall ==
    /\ scraped_page = <<>>
    /\ \E url \in BaseUrls, now \in clock..MaxClock :
           /\ clock' = now
           /\ scraped_page' = <<ScrapePage(url, 0, soup, now)>>
    /\ UNCHANGED <<config, pauses, visited_urls, scraped_pages, status,
                   call_arg, start_url, stack, fetched, history, website_url,
                   normalized_url, soup, summary, returned_pages, calls,
                   backend, danger>>

ExtractNext == ScrapePageCall

ExtractSpec == ExtractInit /\ [][ExtractNext]_vars

(***************************************************************************)
(* Properties of the crawl session.                                        *)
(***************************************************************************)
Records == {scraped_pages[i] : i \in 1..Len(scraped_pages)}
Fetches == {fetched[i] : i \in 1..Len(fetched)}
FailedFetches == {i \in 1..Len(fetched) : ~fetched[i].ok}
SameDomainLinks(r) ==
    {r.links[j] : j \in {k \in 1..Len(r.links) : IsSameDomain(r.url, r.links[k])}}

\* C1: in every reachable state of a crawl session the number of records
\* in results is at most max_pages.
C1_ResultsWithinMaxPages == Len(scraped_pages) <= max_pages

\* A crawl that filled its budget exactly, with links left unfollowed.
C1_Witness ==
    /\ status = "Completed"
    /\ max_pages >= 2
    /\ Len(scraped_pages) = max_pages
    /\ \E r \in Records : \E l \in SameDomainLinks(r) :
           /\ r.depth < max_depth
           /\ CleanUrl(l) \notin visited_urls

\* C2: every record of results has a depth between 0 and max_depth, and no
\* page is fetched at a depth greater than max_depth.
C2_DepthWithinMaxDepth ==
    /\ \A r \in Records : r.depth \in 0..max_depth
    /\ \A f \in Fetches : f.depth \in 0..max_depth
    /\ \A i \in 1..Len(stack) :
           stack[i].pc \in {"fetch", "loop"} => stack[i].depth \in 0..max_depth

\* A finished crawl that the depth limit cut: a page at depth max_depth has
\* a same-domain link that was never visited although budget was left.
C2_Witness ==
    /\ status = "Completed"
    /\ max_depth >= 1
    /\ Len(scraped_pages) < max_pages
    /\ \E r \in Records : \E l \in SameDomainLinks(r) :
           /\ r.depth = max_depth
           /\ CleanUrl(l) \notin visited_urls

\* C3: the url of every record of results is in visited, and no two records
\* of results have the same url.
C3_ResultsVisitedAndDistinct ==
    /\ \A r \in Records : r.url \in visited_urls
    /\ \A i, j \in 1..Len(scraped_pages) :
           scraped_pages[i].url = scraped_pages[j].url => i = j

\* A finished crawl in which a followed link named, under another
\* spelling, a page that had already been scraped.
C3_Witness ==
    /\ status = "Completed"
    /\ Len(scraped_pages) < max_pages
    /\ \E i, j \in 1..Len(scraped_pages) :
           /\ i <= j
           /\ scraped_pages[j].depth < max_depth
           /\ \E l \in SameDomainLinks(scraped_pages[j]) :
                  /\ l # scraped_pages[i].url
                  /\ CleanUrl(l) = scraped_pages[i].url

\* C4: each URL key is fetched at most once in a session, successful or
\* not, and it is in visited before its fetch is issued.
C4_FetchedAtMostOnce ==
    /\ \A i, j \in 1..Len(fetched) : fetched[i].url = fetched[j].url => i = j
    /\ \A f \in Fetches : f.url \in visited_urls
    /\ \A i \in 1..Len(stack) :
           stack[i].pc = "fetch" =>
               /\ stack[i].url \in visited_urls
               /\ \A f \in Fetches : f.url # stack[i].url

\* A finished crawl in which a page whose fetch had failed was linked to
\* again from a page scraped after the failure, with budget and depth left.
C4_Witness ==
    /\ status = "Completed"
    /\ Len(scraped_pages) < max_pages
    /\ \E i \in FailedFetches : \E j \in (i + 1)..Len(fetched) :
           /\ fetched[j].ok
           /\ fetched[j].depth < max_depth
           /\ \E r \in Records :
                  /\ r.url = fetched[j].url
                  /\ \E l \in SameDomainLinks(r) : CleanUrl(l) = fetched[i].url

\* C5: a scrape_website call whose seed fails normalization ends in the
\* invalid-seed failure, issues no fetch, starts no crawl, and leaves
\* visited and results as they were.
C5_InvalidSeedTouchesNothing ==
    [][(/\ <<status, call_arg>>' # <<status, call_arg>>
        /\ NormalizeUrl(call_arg') = None)
       => (/\ status' = "Failed"
           /\ visited_urls' = visited_urls
           /\ scraped_pages' = scraped_pages
           /\ fetched' = fetched
           /\ stack' = <<>>)]_vars

\* An invalid call made on a controller that holds an earlier crawl.
C5_Witness ==
    /\ status = "Failed"
    /\ NormalizeUrl(call_arg) = None
    /\ Len(scraped_pages) >= 2
    /\ visited_urls # {}

\* C6: a failed page gets no record, a call with a valid seed never
\* raises, and the failure does not stop the links after it from being
\* attempted: a finished crawl with budget left has visited every
\* same-domain link of every page scraped above the depth limit.
C6_FailureContained ==
    /\ \A i \in FailedFetches : \A r \in Records : r.url # fetched[i].url
    /\ status = "Failed" => NormalizeUrl(call_arg) = None
    /\ (status = "Completed" /\ Len(scraped_pages) < max_pages) =>
           \A r \in Records : \A l \in SameDomainLinks(r) :
               r.depth < max_depth => CleanUrl(l) \in visited_urls

\* A finished crawl in which a link of a page failed and a later link of
\* the same page was fetched after the failure.
C6_Witness ==
    /\ status = "Completed"
    /\ \E r \in Records : \E j, k \in 1..Len(r.links) :
           /\ j < k
           /\ \E a \in FailedFetches : \E b \in (a + 1)..Len(fetched) :
                  /\ fetched[a].url = CleanUrl(r.links[j])
                  /\ fetched[a].depth = r.depth + 1
                  /\ fetched[b].url = CleanUrl(r.links[k])
                  /\ fetched[b].depth = r.depth + 1
                  /\ fetched[b].ok

\* C7 as stated: visited and results are empty when the crawl of a
\* valid call begins, and a call returns the same results (same records,
\* same order, same count) as every earlier completed call with the same
\* seed on this controller.
C7_IndependentOfEarlierCalls ==
    /\ (status = "Running" /\ Len(stack) = 1 /\ stack[1].pc = "enter") =>
           (visited_urls = {} /\ scraped_pages = <<>>)
    /\ status = "Completed" =>
           \A h \in history : h.seed = start_url => h.pages = scraped_pages

\* The records of a results sequence without their timestamp field.
Untimed(pages) ==
    [i \in 1..Len(pages) |->
        [f \in DOMAIN pages[i] \ {"timestamp"} |-> pages[i][f]]]

\* C7, amended: visited and results are empty when the crawl of a valid
\* call begins, and a call returns the results of every earlier completed
\* call with the same seed on this controller, record by record in the
\* same order and number, in every field but the timestamp, which is the
\* time of the fetch.
C7_IndependentApartFromTimestamp ==
    /\ (status = "Running" /\ Len(stack) = 1 /\ stack[1].pc = "enter") =>
           (visited_urls = {} /\ scraped_pages = <<>>)
    /\ status = "Completed" =>
           \A h \in history :
               h.seed = start_url => Untimed(h.pages) = Untimed(scraped_pages)

\* A crawl completed for the second time with the same seed, later than
\* the first time, with a crawl of another seed recorded too.
C7_Witness ==
    /\ status = "Completed"
    /\ \E h \in history :
           /\ h.seed = start_url
           /\ Len(h.pages) >= 2
           /\ h.pages # scraped_pages
    /\ \E h \in history : h.seed # start_url /\ Len(h.pages) >= 1

\* C8: every URL fetched, every record and every _crawl_recursive call of
\* a session has exactly the host of the normalized seed.
C8_SeedHostOnly ==
    /\ \A f \in Fetches : GetDomain(f.url) = GetDomain(start_url)
    /\ \A r \in Records : GetDomain(r.url) = GetDomain(start_url)
    /\ \A i \in 1..Len(stack) : GetDomain(stack[i].url) = GetDomain(start_url)

\* A finished crawl of a.com that met a link to sub.a.com on a page above
\* the depth limit, with budget left.
C8_Witness ==
    /\ status = "Completed"
    /\ GetDomain(start_url) = <<"a.com">>
    /\ Len(scraped_pages) < max_pages
    /\ \E r \in Records : \E j \in 1..Len(r.links) :
           /\ r.depth < max_depth
           /\ GetDomain(r.links[j]) = <<"sub.a.com">>

\* C9: every scrape_website call with a valid seed eventually completes.
C9_CrawlTerminates == (status = "Running") ~> (status = "Completed")

\* A crawl of the unbounded site that ended with budget left, after a
\* failed fetch.
C9_Witness ==
    /\ status = "Completed"
    /\ site = "Deep"
    /\ max_depth >= 1
    /\ Len(scraped_pages) < max_pages
    /\ FailedFetches # {}

\* C10 as stated: the number of fetches issued in a session never exceeds
\* max_pages.
C10_FetchesWithinMaxPages == Len(fetched) <= max_pages

\* C10, amended: the number of successful fetches of a session never
\* exceeds max_pages and no fetch is issued once max_pages records exist;
\* failed fetches are not counted.
C10_SuccessfulFetchesWithinMaxPages ==
    /\ Len(fetched) - Cardinality(FailedFetches) <= max_pages
    /\ \A i \in 1..Len(stack) :
           stack[i].pc = "fetch" => Len(scraped_pages) < max_pages

\* A session that issued more than max_pages fetches.
C10_Witness ==
    /\ status = "Completed"
    /\ Len(fetched) > max_pages
    /\ Len(fetched) - Cardinality(FailedFetches) = max_pages

\* The request that led to request k: the latest earlier request one level
\* above it.
HasParent(k) ==
    \E p \in 1..(k - 1) :
        /\ fetched[p].depth = fetched[k].depth - 1
        /\ \A q \in (p + 1)..(k - 1) : fetched[q].depth >= fetched[k].depth

ParentIdx(k) ==
    CHOOSE p \in 1..(k - 1) :
        /\ fetched[p].depth = fetched[k].depth - 1
        /\ \A q \in (p + 1)..(k - 1) : fetched[q].depth >= fetched[k].depth

RecordOf(url) == CHOOSE r \in Records : r.url = url

\* The positions of the same-domain links of record r that name url.
LinkPositions(r, url) ==
    {j \in 1..Len(r.links) :
        IsSameDomain(r.url, r.links[j]) /\ CleanUrl(r.links[j]) = url}

FirstLinkPos(r, url) ==
    CHOOSE j \in LinkPositions(r, url) : \A i \in LinkPositions(r, url) : j <= i

OkFetches == SelectSeq(fetched, LAMBDA f : f.ok)

\* C11: traversal is depth-first in document link order.  A call of
\* _crawl_recursive below the innermost one waits in its loop for the link
\* it followed last; the requests are issued in depth-first pre-order (a
\* request is for a link of the latest page one level above it, and the
\* requests for the links of one page come in the order of the links, each
\* after everything below the one before); results is the successful
\* requests in that order.
C11_DepthFirstPreOrder ==
    /\ \A i \in 1..(Len(stack) - 1) :
           /\ stack[i].pc = "loop"
           /\ stack[i].idx \in 2..(Len(stack[i].links) + 1)
           /\ stack[i + 1].depth = stack[i].depth + 1
           /\ CleanUrl(stack[i + 1].url)
                  = CleanUrl(stack[i].links[stack[i].idx - 1])
    /\ \A k \in 1..Len(fetched) :
           IF k = 1 THEN fetched[k].depth = 0
           ELSE /\ fetched[k].depth >= 1
                /\ HasParent(k)
                /\ fetched[ParentIdx(k)].ok
                /\ LinkPositions(RecordOf(fetched[ParentIdx(k)].url),
                                 fetched[k].url) # {}
    /\ \A k1, k2 \in 2..Len(fetched) :
           (k1 < k2 /\ HasParent(k1) /\ HasParent(k2)
              /\ ParentIdx(k1) = ParentIdx(k2)) =>
               FirstLinkPos(RecordOf(fetched[ParentIdx(k1)].url),
                            fetched[k1].url)
                 < FirstLinkPos(RecordOf(fetched[ParentIdx(k2)].url),
                                fetched[k2].url)
    /\ Len(scraped_pages) = Len(OkFetches)
    /\ \A i \in 1..Len(scraped_pages) :
           /\ scraped_pages[i].url = OkFetches[i].url
           /\ scraped_pages[i].depth = OkFetches[i].depth

\* A finished crawl that went two levels down through the first link of a
\* page and then came back to request a later link of that page.
C11_Witness ==
    /\ status = "Completed"
    /\ \E k \in 3..Len(fetched) :
           /\ fetched[k].depth >= 1
           /\ fetched[k - 1].depth = fetched[k].depth + 1
           /\ ParentIdx(k) < k - 2
           /\ fetched[k].ok

\* The keys of the same-domain links of the page at url; a page whose
\* request fails has none.
NextKeys(url) ==
    CHOOSE r \in
        {IF Resource(u) \in down THEN {}
         ELSE {CleanUrl(ls[j]) :
                  j \in {k \in 1..Len(ls) : IsSameDomain(u, ls[k])}}
         : u \in {url}, ls \in {LinksOf(url)}} : TRUE

\* The keys a chain of at most n same-domain links leads to from the seed.
RECURSIVE ReachWithin(_)
ReachWithin(n) ==
    IF n = 0 THEN {CleanUrl(start_url)}
    ELSE CHOOSE r \in
        {prev \cup UNION {NextKeys(u) : u \in prev}
         : prev \in {ReachWithin(n - 1)}} : TRUE

\* The length of the shortest chain of same-domain links from the seed.
BfsDistance(url) ==
    CHOOSE n \in 0..max_depth :
        /\ url \in ReachWithin(n)
        /\ \A m \in 0..(n - 1) : url \notin ReachWithin(m)

\* C12: the depth of every record of results is the BFS distance of its
\* page from the seed, the length of the shortest chain of same-domain
\* links from the seed to the page.
C12_DepthIsBfsDistance ==
    \A r \in Records :
        /\ r.url \in ReachWithin(max_depth)
        /\ r.depth = BfsDistance(r.url)

\* C13: when no fetch fails and the same-domain pages within max_depth
\* link hops of the seed number at most max_pages, the results of a
\* completed call hold a record for every same-domain page a chain of at
\* most max_depth same-domain links leads to from the seed.
C13_AllReachablePagesScraped ==
    (/\ status = "Completed"
     /\ FailedFetches = {}
     /\ Cardinality(ReachWithin(max_depth)) <= max_pages) =>
        \A u \in ReachWithin(max_depth) : \E r \in Records : r.url = u

\* C14: the url of every record of results is canonical (normalized: with
\* a scheme and without a fragment), and no two records of results refer
\* to the same canonical URL.
C14_RecordUrlCanonicalAndUnique ==
    /\ \A r \in Records :
           /\ UrlParse(r.url).fragment = <<>>
           /\ \A i \in 1..Len(r.url) : r.url[i] # "#"
           /\ NormalizeUrl(r.url) = r.url
    /\ \A i, j \in 1..Len(scraped_pages) :
           NormalizeUrl(scraped_pages[i].url) = NormalizeUrl(scraped_pages[j].url)
               => i = j

\* C15: the seed's request is issued before any pause, between any two
\* consecutive requests of a session at least one pause of the delay is
\* taken, and a pause is only taken in the loop over a page's links, for a
\* link that passes the same-domain test while the page budget is not
\* exhausted.
C15_PauseBeforeEachFollowUp ==
    /\ [](/\ \A k \in 1..Len(fetched) :
              IF k = 1 THEN fetched[k].pauses = 0
              ELSE fetched[k].pauses > fetched[k - 1].pauses
          /\ \A i \in 1..Len(stack) :
              (i > 1 /\ stack[i].pc = "fetch" /\ fetched # <<>>) =>
                  pauses > fetched[Len(fetched)].pauses)
    /\ [][(pauses' # pauses /\ status = "Running") =>
            /\ pauses' = pauses + 1
            /\ stack # <<>> /\ Top.pc = "loop"
            /\ Top.idx <= Len(Top.links)
            /\ IsSameDomain(Top.url, Top.links[Top.idx])
            /\ Len(scraped_pages) < max_pages]_vars

\* A finished crawl that passed over a link of another domain, paused for
\* a link that turned out to be visited already, and stopped following the
\* links of a page when the budget was exhausted.
C15_Witness ==
    /\ status = "Completed"
    /\ Len(fetched) >= 3
    /\ pauses > Len(fetched) - 1
    /\ Len(scraped_pages) = max_pages
    /\ \E r \in Records : \E j \in 1..Len(r.links) :
           /\ r.depth < max_depth
           /\ ~IsSameDomain(r.url, r.links[j])
    /\ \E r \in Records : \E l \in SameDomainLinks(r) :
           /\ r.depth < max_depth
           /\ CleanUrl(l) \notin visited_urls

\* C16: during a session, from the reset at the start of scrape_website
\* until it returns, no URL is removed from visited and no record of
\* results is removed, replaced or reordered: every step of the running
\* call keeps visited as a subset and results as a prefix.
C16_VisitedGrowsResultsAppendOnly ==
    [][status = "Running" =>
          /\ visited_urls \subseteq visited_urls'
          /\ Len(scraped_pages') >= Len(scraped_pages)
          /\ SubSeq(scraped_pages', 1, Len(scraped_pages)) = scraped_pages]_vars

\* A finished session in which visited grew by URLs that got no record and
\* results was appended to several times.
C16_Witness ==
    /\ status = "Completed"
    /\ Len(scraped_pages) >= 3
    /\ FailedFetches # {}
    /\ Cardinality(visited_urls) > Len(scraped_pages)

\* C17: normalize is idempotent on its valid outputs: whenever the front
\* end's normalize_url(u) is valid, scrape_website's normalize_url of it
\* is that same URL, so the call does not fail and crawls from it.
C17_NormalizeIdempotent ==
    /\ status \in {"Submitted", "Rejected"} =>
           /\ normalized_url = NormalizeUrl(website_url)
           /\ normalized_url # None =>
                  NormalizeUrl(normalized_url) = normalized_url
    /\ status \in {"Running", "Failed"} =>
           /\ status = "Running"
           /\ call_arg = NormalizeUrl(website_url)
           /\ start_url = call_arg

\* The seed without a scheme, 'a.com', accepted as 'https://a.com' by both
\* normalizations.
C17_Witness ==
    /\ status = "Running"
    /\ website_url = <<"a.com">>
    /\ start_url = <<"https://", "a.com">>

\* The positions in the document of the anchors whose href is not skipped
\* and resolves against base_url to the valid absolute URL link.
AnchorsTo(doc, base_url, link) ==
    {i \in 1..Len(doc.nodes) :
        /\ doc.nodes[i].tag = "a"
        /\ doc.nodes[i].href # None
        /\ ~(doc.nodes[i].href # <<>>
             /\ Head(doc.nodes[i].href) \in SkippedPrefixes)
        /\ MakeAbsoluteUrl(base_url, doc.nodes[i].href) = link}

\* The valid absolute URLs the anchors of the document resolve to.
ResolvedAnchors(doc, base_url) ==
    {MakeAbsoluteUrl(base_url, doc.nodes[i].href) :
        i \in {k \in 1..Len(doc.nodes) :
                  /\ doc.nodes[k].tag = "a"
                  /\ doc.nodes[k].href # None
                  /\ ~(doc.nodes[k].href # <<>>
                       /\ Head(doc.nodes[k].href) \in SkippedPrefixes)}}
        \ {None}

FirstAnchorTo(doc, base_url, link) ==
    CHOOSE i \in AnchorsTo(doc, base_url, link) :
        \A j \in AnchorsTo(doc, base_url, link) : i <= j

\* C18: for every anchor with an href in the fetched document, wherever it
\* is nested, whose href is not skipped and resolves to a valid absolute
\* URL, the links of the page hold that URL exactly once, and nothing
\* else, in document order of first occurrence.
C18_LinksOfEveryAnchor ==
    \A k \in 1..Len(scraped_page) :
        \E page \in {scraped_page[k]} :
            /\ {page.links[i] : i \in 1..Len(page.links)}
                   = ResolvedAnchors(soup, page.url)
            /\ \A i, j \in 1..Len(page.links) :
                   i < j =>
                       /\ page.links[i] # page.links[j]
                       /\ FirstAnchorTo(soup, page.url, page.links[i])
                              < FirstAnchorTo(soup, page.url, page.links[j])

\* C19: every page _scrape_page returns has content and metadata (possibly
\* empty), and its links hold no URL twice and nothing but valid absolute
\* http or https URLs with a host: no fragment-only, javascript:, mailto:
\* or tel: target.
C19_RecordFieldsAndLinksValid ==
    \A k \in 1..Len(scraped_page) :
        \E page \in {scraped_page[k]} :
            /\ {"content", "metadata", "links"} \subseteq DOMAIN page
            /\ \A i, j \in 1..Len(page.links) :
                   page.links[i] = page.links[j] => i = j
            /\ \A i \in 1..Len(page.links) :
                   \E link \in {page.links[i]} :
                       /\ link # None
                       /\ link # <<>>
                       /\ Head(link) \in {"http://", "https://"}
                       /\ Head(link) \notin SkippedPrefixes
                       /\ UrlParse(link).netloc # <<>>
                       /\ IsValidUrl(link)

\* A page without text or meta elements whose anchors were skipped,
\* dropped as invalid or named the same URL twice: its content and
\* metadata are empty and its links hold the one URL.
C19_Witness ==
    /\ scraped_page # <<>>
    /\ Len(soup.nodes) = 3
    /\ soup.nodes[1].href = <<"http://", "/", "x">>
    /\ soup.nodes[2].href = <<"mailto:", "x">>
    /\ soup.nodes[3].href = <<"https://", "b.com", "/">>
    /\ ~soup.title.present
    /\ Len(scraped_page[1].links) = 1
    /\ DOMAIN scraped_page[1].metadata = {}

\* The text of the title element of the document, stripped; empty if the
\* element is absent or has no text.
TitleText(doc) ==
    IF doc.title.present /\ doc.title.string # None
    THEN Strip(doc.title.string) ELSE <<>>

FirstHeading1(doc) ==
    CHOOSE i \in 1..Len(doc.nodes) :
        /\ doc.nodes[i].tag = "h1"
        /\ \A j \in 1..(i - 1) : doc.nodes[j].tag # "h1"

\* C20: the title of a page is the text of its title element if that text
\* is not empty; otherwise the text of its first level-1 heading;
\* otherwise the literal 'Untitled'.
C20_TitleFallsBackToHeading ==
    \A k \in 1..Len(scraped_page) :
        scraped_page[k].title =
            IF TitleText(soup) # <<>> THEN TitleText(soup)
            ELSE IF \E i \in 1..Len(soup.nodes) : soup.nodes[i].tag = "h1"
            THEN Strip(soup.nodes[FirstHeading1(soup)].text)
            ELSE <<"Untitled">>

\* The text of the elements that element.decompose() removes.
RemovedText(doc) ==
    Concat([i \in 1..Len(doc.nodes) |->
               IF doc.nodes[i].tag \in RemovedTags
                  \/ doc.nodes[i].inside \in RemovedTags
               THEN doc.nodes[i].text ELSE <<>>])

\* C21: the content of a page holds no text of its script, style, nav,
\* footer, header or aside elements, and is the visible text with every run
\* of whitespace characters (spaces, tabs, newlines, in any mix) collapsed
\* into a single space, without leading or trailing whitespace.
C21_ContentWhitespaceCollapsed ==
    LET \* every run of whitespace characters replaced by one space
        RECURSIVE CollapseRuns(_)
        CollapseRuns(text) ==
            CHOOSE r \in
                {IF t = <<>> THEN <<>>
                 ELSE IF Head(t) \in Whitespace
                 THEN <<" ">> \o CollapseRuns(LStrip(t))
                 ELSE <<Head(t)>> \o CollapseRuns(Tail(t))
                 : t \in {text}} : TRUE
    IN
    \A k \in 1..Len(scraped_page) :
        \E content \in {scraped_page[k].content} :
            /\ \A i \in 1..Len(content) :
                   \A j \in 1..Len(RemovedText(soup)) :
                       RemovedText(soup)[j] \in Whitespace
                           \/ content[i] # RemovedText(soup)[j]
            /\ content = CollapseRuns(Strip(GetText(Decompose(soup))))

\* C22: a get_scrape_summary call returns the state of the session at that
\* moment: total_pages is the number of records of results,
\* total_urls_visited the size of visited, max_depth_reached the largest
\* record depth (0 without records) and unique_domains the number of
\* distinct hosts of the record urls; so total_urls_visited >= total_pages,
\* max_depth_reached <= max_depth and total_pages <= max_pages.
C22_SummaryDerivedFromState ==
    [][summary' # summary =>
          \E s \in {summary'[1]} :
              /\ s.total_pages = Len(scraped_pages)
              /\ s.total_urls_visited = Cardinality(visited_urls)
              /\ \A r \in Records : r.depth <= s.max_depth_reached
              /\ IF Records = {} THEN s.max_depth_reached = 0
                 ELSE \E r \in Records : r.depth = s.max_depth_reached
              /\ s.unique_domains
                     = Cardinality({UrlParse(r.url).netloc : r \in Records})
              /\ s.total_urls_visited >= s.total_pages
              /\ s.max_depth_reached <= max_depth
              /\ s.total_pages <= max_pages]_vars

\* A summary taken after a crawl that filled its budget, met a failing
\* page and ended on a page above its deepest one, with the summary of an
\* earlier moment replaced.
C22_Witness ==
    /\ status = "Completed"
    /\ summary = <<GetScrapeSummary>>
    /\ summary[1].total_pages = max_pages
    /\ summary[1].total_pages >= 3
    /\ summary[1].total_urls_visited > summary[1].total_pages
    /\ summary[1].max_depth_reached > scraped_pages[Len(scraped_pages)].depth

\* C23: the results sequence a scrape_website call returned is final: no
\* later step of the same controller, a later scrape_website call with a
\* valid seed included, changes its length or its contents.
C23_ReturnedResultsFinal ==
    [][returned_pages # <<>> => returned_pages' = returned_pages]_vars

\* C24: the site root is fetched at most once per session however it is
\* referenced: the root without and with its trailing slash are one visited
\* key, so no session holds two fetches or two records of a host's root.
C24_RootFetchedOnce ==
    LET \* the URL names the root page of its host
        IsRootUrl(url) ==
            \E parsed \in {UrlParse(url)} :
                /\ parsed.path \in {<<>>, <<"/">>}
                /\ parsed.query = <<>>
                /\ parsed.fragment = <<>>
        SameRoot(u, v) ==
            /\ IsRootUrl(u) /\ IsRootUrl(v)
            /\ Resource(u) = Resource(v)
    IN
    /\ \A u, v \in visited_urls : SameRoot(u, v) => u = v
    /\ \A i, j \in 1..Len(fetched) :
           SameRoot(fetched[i].url, fetched[j].url) => i = j
    /\ \A i, j \in 1..Len(scraped_pages) :
           SameRoot(scraped_pages[i].url, scraped_pages[j].url) => i = j

\* C25: storing a crawl does not alter the crawler's records: whichever the
\* backend and whether add_documents succeeds or fails, every step from the
\* end of the crawl to the return of scrape_and_store_website leaves the
\* metadata of every record of results as the extractor produced it.
C25_StoringKeepsRecordMetadata ==
    [][(status \in {"Completed", "Storing", "Added"}) =>
          /\ Len(scraped_pages') = Len(scraped_pages)
          /\ \A i \in 1..Len(scraped_pages) :
                 scraped_pages'[i].metadata = scraped_pages[i].metadata]_vars

\* The url of a document of the store.
StoredUrl(id) ==
    IF db_type = "chromadb" THEN collection[id].metadata[<<"url">>]
    ELSE collection[id].url

\* C26: the storage id derived from a URL is unique per URL: the distinct
\* page URLs of a stored batch have distinct ids, and after a successful
\* add_documents call the document the store holds under the id of a page
\* is that page, not another page's.
C26_StorageIdUniquePerUrl ==
    status = "Stored" =>
        /\ \A r1, r2 \in Records :
               DocId(r1.url) = DocId(r2.url) => r1.url = r2.url
        /\ success = <<TRUE>> =>
               \A r \in Records :
                   DocId(r.url) \in DOMAIN collection
                       => StoredUrl(DocId(r.url)) = r.url

\* C27: a user who has clicked "Clear Database" and then ticked the
\* confirmation checkbox has caused clear_collection to be invoked by the
\* time the run the tick triggered is over.
C27_ClickThenTickClears ==
    (ticked /\ trigger = "none") => cleared

====
